---- MODULE Spec2Model ----
(***************************************************************************)
(* Dispatcher-set synchronisation controller (CyCoreSystems/dispatchers).  *)
(*                                                                         *)
(* The model covers the v2 library: the Controller (controller.go), the    *)
(* static and kubernetes dispatcher sets and the membership diff           *)
(* (cmd/dispatchers/http.go, package sets).                                *)
(***************************************************************************)
EXTENDS Integers, Sequences, FiniteSets, TLC

(***************************************************************************)
(* Bounds of the model.                                                    *)
(***************************************************************************)
\* longest membership snapshot handed to the diff
MaxLen == 2
\* most endpoints an EndpointSlice event carries
MaxEndpoints == 1
\* most sets registered with the Controller
MaxSets == 2
\* most change callbacks registered on one set
MaxCallbacks == 1
\* longest request path behind the route prefix, in symbols
MaxPath == 3
\* most -set definitions, and most -static definitions, on the command line
MaxDefs == 2
\* most results waiting in maintain's channel
MaxQueue == 1
\* most calls of Close() on one set
MaxCloses == 2
\* most short runs followed before main gives up
MaxDeaths == 2
\* most backing arrays flattenEndpointSlice allocates
MaxArrays == 3
\* most calls of the sinks followed in the Controller's own methods
MaxCalls == 5
None == "none"

(***************************************************************************)
(* Data model: sets.Endpoint and sets.State.                               *)
(***************************************************************************)
Addresses == {"10.0.0.1", "10.0.0.2"}

PortNumbers == {5060, 5061}

Endpoint == [Address : Addresses, Port : PortNumbers]

SeqsUpTo(S, n) == UNION {[1..k -> S] : k \in 0..n}

Snapshots == SeqsUpTo(Endpoint, MaxLen)

Range(s) == {s[i] : i \in 1..Len(s)}

\* the (Address,Port) pairs of a snapshot
Pairs(s) == {<<s[i].Address, s[i].Port>> : i \in 1..Len(s)}

(***************************************************************************)
(* isChanged: the membership diff, computed loop by loop as the code does. *)
(***************************************************************************)
\* inner loop: is some c of current equal to p in Address and Port
FoundIn(p, current) ==
    \E j \in 1..Len(current) :
        current[j].Address = p.Address /\ current[j].Port = p.Port

RECURSIVE isChangedFrom(_, _, _)
\* outer loop over previous from index i on
isChangedFrom(previous, current, i) ==
    IF i > Len(previous) THEN TRUE
    ELSE IF ~FoundIn(previous[i], current) THEN FALSE
    ELSE isChangedFrom(previous, current, i + 1)

isChanged(previous, current) ==
    IF Len(previous) # Len(current) THEN TRUE
    ELSE isChangedFrom(previous, current, 1)

(***************************************************************************)
(* IsMember of staticSet and kubernetesSet: the same loop over the set's   *)
(* endpoints in both.                                                      *)
(***************************************************************************)
RECURSIVE IsMemberFrom(_, _, _, _)
\* the loop over the endpoints from index i on
IsMemberFrom(eps, addr, port, i) ==
    IF i > Len(eps) THEN FALSE
    ELSE IF eps[i].Address = addr
         THEN IF port > 0
              THEN IF eps[i].Port # port THEN FALSE ELSE TRUE
              ELSE TRUE
    ELSE IsMemberFrom(eps, addr, port, i + 1)

staticSetIsMember(Endpoints, addr, port) == IsMemberFrom(Endpoints, addr, port, 1)

kubernetesSetIsMember(eps, addr, port) == IsMemberFrom(eps, addr, port, 1)

(***************************************************************************)
(* The dispatcher sets of the deployment: a kubernetes set and a static    *)
(* one, as run() builds them from one -set and one -static definition.     *)
(***************************************************************************)
K8sSets == {"K1"}

StaticSets == {"S1"}

AllSets == K8sSets \cup StaticSets

\* kubernetesSet{id, namespace, name, port} and staticSet{id, Endpoints}
SetDef ==
    [s \in AllSets |->
        CASE s = "K1" -> [id |-> 1, namespace |-> "default",
                          name |-> "asterisk", port |-> "5060"]
          [] s = "S1" -> [id |-> 2,
                          Endpoints |-> <<[Address |-> "10.0.0.1", Port |-> 5060]>>]]

\* the callbacks a client can register: Controller.ChangeFunc or a function of its own
ControllerFunc == "Controller.ChangeFunc"

OtherFunc == "other"

Callbacks == {ControllerFunc, OtherFunc}

(***************************************************************************)
(* Objects the informer hands to addFunc/updateFunc/deleteFunc.  A nil     *)
(* pointer is the empty sequence, a set pointer a sequence of one value.   *)
(***************************************************************************)
EndpointPorts ==
    { <<>>,
      <<[Name |-> <<"sip">>, Port |-> <<5061>>]>>,
      <<[Name |-> <<"sip">>, Port |-> <<>>]>>,
      <<[Name |-> <<>>, Port |-> <<5060>>]>> }

SliceEndpoints ==
    SeqsUpTo({[Addresses |-> <<a>>] : a \in Addresses} \cup {[Addresses |-> <<>>]},
             MaxEndpoints)

Objects ==
    {[kind |-> "Other"]} \cup
    [kind : {"EndpointSlice"}, Namespace : {"default", "kube-system"},
     Name : {"asterisk", "proxy"}, Ports : EndpointPorts,
     Endpoints : SliceEndpoints]

\* strconv.Atoi on the port references in use: only "5060" is a number
Atoi(str) ==
    IF str = "5060" THEN [val |-> 5060, err |-> FALSE]
    ELSE [val |-> 0, err |-> TRUE]

\* uint32(portNumber): the port numbers of Objects lie in 0..65535, where the
\* conversion keeps the value
Uint32(n) == IF n >= 0 THEN n ELSE 0 - n

RECURSIVE resolvePort(_, _, _, _)
\* the loop over epSlice.Ports of flattenEndpointSlice, from index i on
resolvePort(refPort, ports, i, portNumber) ==
    IF i > Len(ports) THEN [err |-> FALSE, portNumber |-> portNumber]
    ELSE IF ports[i].Name = <<>> THEN resolvePort(refPort, ports, i + 1, portNumber)
    ELSE IF ports[i].Name[1] = refPort
         THEN IF ports[i].Port = <<>>
              THEN [err |-> TRUE, portNumber |-> 0]
              ELSE resolvePort(refPort, ports, i + 1, ports[i].Port[1])
    ELSE resolvePort(refPort, ports, i + 1, portNumber)

RECURSIVE flattenAddresses(_, _, _)
\* the loops over epSlice.Endpoints and their Addresses, from endpoint i on
flattenAddresses(eps, i, portNumber) ==
    IF i > Len(eps) THEN <<>>
    ELSE [j \in 1..Len(eps[i].Addresses) |->
            [Address |-> eps[i].Addresses[j], Port |-> Uint32(portNumber)]]
         \o flattenAddresses(eps, i + 1, portNumber)

\* a stand-in for flattenEndpointSlice that goes on with port 5060 where the
\* port reference is not resolved
flattenEndpointSliceDefaultPort(refPort, epSlice) ==
    LET a == Atoi(refPort)
        first == IF a.err THEN 0 ELSE a.val
        r == IF first = 0 THEN resolvePort(refPort, epSlice.Ports, 1, first)
             ELSE [err |-> FALSE, portNumber |-> first]
        n == IF r.err \/ r.portNumber = 0 THEN 5060 ELSE r.portNumber
    IN  [err |-> FALSE, out |-> flattenAddresses(epSlice.Endpoints, 1, n)]

flattenEndpointSlice(refPort, epSlice) ==
    LET a == Atoi(refPort)
        first == IF a.err THEN 0 ELSE a.val
        r == IF first = 0 THEN resolvePort(refPort, epSlice.Ports, 1, first)
             ELSE [err |-> FALSE, portNumber |-> first]
    IN  IF r.err \/ r.portNumber = 0
        THEN [err |-> TRUE, out |-> <<>>]
        ELSE [err |-> FALSE, out |-> flattenAddresses(epSlice.Endpoints, 1, r.portNumber)]

VARIABLES
    cfg,        \* Controller.Exporter, .Notifier: TRUE when not nil
    csets,      \* Controller.sets, in AddSet order
    cmu,        \* Controller.mu: the tasks holding the read lock
    endpoints,  \* kubernetesSet.endpoints of each kubernetes set
    callbacks,  \* kubernetesSet.callbacks of each kubernetes set
    mu,         \* kubernetesSet.mu: its holder, or None
    hpc,        \* position of each set's event-handler task in updateSet
    hlist,      \* updateSet's local list (the flattened EndpointSlice)
    hcbs,       \* the callbacks updateSet's range loop iterates over
    hidx,       \* index of that loop
    closed,     \* history: Close() has been called on the set
    hafter,     \* history: the event being handled was delivered after Close()
    cf,         \* each task's call of ChangeFunc / CurrentState
    diffPrev,   \* isChanged harness: argument previous
    diffCur,    \* isChanged harness: argument current
    diffOut,    \* isChanged harness: the results of the calls
    memEps,     \* IsMember harness: the set's endpoints
    memAddr,    \* IsMember harness: argument addr
    memPort,    \* IsMember harness: argument port
    memOut,     \* IsMember harness: the results of the calls
    ssNew,      \* static set: the id and endpoints handed to NewStaticSet
    ssSet,      \* static set: the fields id and Endpoints of the staticSet
    ssCtx,      \* static set: the context handed to Watch, "live" or "done"
    ssWatch,    \* static set: position of the call of Watch
    ssRet,      \* static set: what each method returned last, <<>> before its first call
    ssFired,    \* static set: the callbacks the set has invoked
    reqRest,    \* HTTP harness: the request path behind the route prefix
    reqState,   \* HTTP harness: what s.c.CurrentState() returns to the handler
    reqOut,     \* HTTP harness: the responses of the three routes
    runDefs,    \* daemon: the numbers of -set and -static definitions
    runPc,      \* daemon: position of main/run
    runI,       \* daemon: index of run's loop over the definitions
    runLog,     \* daemon: the operations on the sets and sinks, in order
    runTimer,   \* daemon: the timer of time.AfterFunc
    runCtx,     \* daemon: the stop context, "live" or "done"
    runSets,    \* daemon: the IDs of the sets of controller.sets, in order
    lpc,        \* Watch generation: position of main, run and maintain
    shortDeaths, \* Watch generation: main's count of short runs
    lsignalled, \* Watch generation, history: SIGINT or SIGTERM has reached the process
    lret,       \* Watch generation: the error maintain returned last
    lctx,       \* Watch generation: run's stop context
    lmembers,   \* Watch generation: kubernetesSet.members
    lsetCtx,    \* Watch generation: the set's context, "none" before construction
    lcloses,    \* Watch generation: calls of Close() on the set so far
    mwpc,       \* Watch generation: position of the set's maintainWatch goroutine
    mwval,      \* Watch generation: the error (nil: <<>>) it is sending on s.changes
    wpc,        \* Watch generation: position of maintain's goroutine calling Watch
    wval,       \* Watch generation: the error Watch returned to it
    mchanges,   \* Watch generation: maintain's buffered channel changes
    expSets,    \* Watch generation, export: the map dispatcherSets.sets
    expOut,     \* Watch generation, export: the file written and the error returned
    arrays,     \* memory: the backing arrays of the Endpoints slices built so far
    epRef,      \* memory: the array s.endpoints refers to, 0 for the nil slice
    outRef,     \* memory: the array of flattenEndpointSlice's out, 0 for nil
    fpc,        \* memory: the handler task, "idle" or in "flatten"
    held,       \* memory: the States handed out, each with the Endpoints seen in it then
    infPending, \* informer: the notifications waiting for the set's event handler
    infExecs,   \* informer: the executions of updateSet in progress
    infEndpoints, \* informer: kubernetesSet.endpoints
    infMu,      \* informer: kubernetesSet.mu, its holder or None
    infPort,    \* informer: kubernetesSet.port
    infLast,    \* informer, history: how far the last handler call got before s.mu.Lock()
    infDelivered, \* informer, history: the State the callbacks were called with last
    skLast,     \* Controller methods: the last call, what it returned and the sinks it called
    skLog       \* Controller methods: the calls of the sinks so far, in order

diffVars == <<diffPrev, diffCur, diffOut>>

memVars == <<memEps, memAddr, memPort, memOut>>

ssVars == <<ssNew, ssSet, ssCtx, ssWatch, ssRet, ssFired>>

reqVars == <<reqRest, reqState, reqOut>>

runVars == <<runDefs, runPc, runI, runLog, runTimer, runCtx, runSets>>

expVars == <<expSets, expOut>>

memoryVars == <<arrays, epRef, outRef, fpc, held>>

sinkVars == <<skLast, skLog>>

informerVars == <<infPending, infExecs, infEndpoints, infMu, infPort, infLast, infDelivered>>

legVars == <<lpc, shortDeaths, lsignalled, lret, lctx, lmembers, lsetCtx, lcloses,
             mwpc, mwval, wpc, wval, mchanges>>

\* the variables of the pure-function harnesses and of the set on its own
auxVars == <<diffVars, memVars, ssVars, reqVars, runVars, legVars, expVars, memoryVars, informerVars, sinkVars>>

ctlVars == <<cfg, csets, cmu, cf>>

setVars == <<endpoints, callbacks, mu, closed>>

taskVars == <<hpc, hlist, hcbs, hidx, hafter>>

vars == <<ctlVars, setVars, taskVars, auxVars>>

\* the reader task: an HTTP handler or run()'s logging loop calling CurrentState
Reader == "R"

\* the handler tasks of two further kubernetes sets that have
\* Controller.ChangeFunc among their callbacks; of those sets only the calls
\* of ChangeFunc are modelled
Others == {"K2", "K3"}

\* tasks that call CurrentState: the handler tasks (through ChangeFunc) and
\* the reader
Tasks == K8sSets \cup {Reader} \cup Others

\* A call of ChangeFunc or CurrentState: pc its position, n the length of
\* c.sets when the range loop of CurrentState evaluated it, i and snap the loop
\* index and currentState of CurrentState, exp/ntf the outcome of the call of
\* the Exporter/Notifier ("ok", "err", None when not called) with expArg/ntfArg
\* the snapshot handed to it, raised whether an error left ChangeFunc towards
\* its caller, prevFailed whether a sink failed in the task's previous call.
IdleCall ==
    [pc |-> "idle", n |-> 0, i |-> 0, snap |-> <<>>,
     exp |-> None, expArg |-> <<>>, ntf |-> None, ntfArg |-> <<>>,
     raised |-> FALSE, prevFailed |-> FALSE]

(***************************************************************************)
(* kubernetesSet.State / staticSet.State.  The kubernetes set reads        *)
(* s.endpoints without taking s.mu: a read that overlaps updateSet's store *)
(* of the slice header is a data race and yields the old slice, the new    *)
(* one, or the new array under the old length.                             *)
(***************************************************************************)
Min(a, b) == IF a < b THEN a ELSE b

TornSlice(old, new) == SubSeq(new, 1, Min(Len(old), Len(new)))

StateReads(s) ==
    IF s \in StaticSets THEN {SetDef[s].Endpoints}
    ELSE IF hpc[s] = "storing"
         THEN {endpoints[s], hlist[s], TornSlice(endpoints[s], hlist[s])}
         ELSE {endpoints[s]}

MkState(s, eps) == [ID |-> SetDef[s].id, Endpoints |-> eps]

(***************************************************************************)
(* Controller.AddSet and kubernetesSet.RegisterChangeFunc.  run() calls    *)
(* AddSet once for each set it constructs.                                 *)
(***************************************************************************)
\* mutant of AddSet: the append does not wait for the readers of c.mu
AddSetUnlocked(s) ==
    /\ Len(csets) < MaxSets
    /\ s \notin Range(csets)
    /\ csets' = Append(csets, s)
    /\ UNCHANGED <<cfg, cmu, cf, setVars, taskVars, auxVars>>

AddSet(s) ==
    /\ Len(csets) < MaxSets
    /\ s \notin Range(csets)
    /\ cmu = {}
    /\ csets' = Append(csets, s)
    /\ UNCHANGED <<cfg, cmu, cf, setVars, taskVars, auxVars>>

RegisterChangeFunc(s, f) ==
    /\ s \in K8sSets
    /\ mu[s] = None
    /\ Len(callbacks[s]) < MaxCallbacks
    /\ callbacks' = [callbacks EXCEPT ![s] = Append(@, f)]
    /\ UNCHANGED <<endpoints, mu, closed, ctlVars, taskVars, auxVars>>

\* Close(): the body is empty; the informer handlers NewKubernetesSet added
\* stay registered.  closed records the call.
kubernetesSetClose(s) ==
    /\ s \in K8sSets
    /\ closed' = [closed EXCEPT ![s] = TRUE]
    /\ UNCHANGED <<endpoints, callbacks, mu, ctlVars, taskVars, auxVars>>

(***************************************************************************)
(* kubernetesSet.updateSet, run by the set's informer handler task for     *)
(* every add, update and delete notification.                              *)
(***************************************************************************)
\* lines 349-363: type and name filter, flattenEndpointSlice
updateSetBegin(s, obj) ==
    /\ hpc[s] = "idle"
    /\ IF obj.kind # "EndpointSlice" THEN UNCHANGED <<hpc, hlist, hafter>>
       ELSE IF obj.Namespace # SetDef[s].namespace \/ obj.Name # SetDef[s].name
            THEN UNCHANGED <<hpc, hlist, hafter>>
       ELSE LET r == flattenEndpointSlice(SetDef[s].port, obj)
            IN  IF r.err THEN UNCHANGED <<hpc, hlist, hafter>>
                ELSE /\ hpc' = [hpc EXCEPT ![s] = "lock"]
                     /\ hlist' = [hlist EXCEPT ![s] = r.out]
                     /\ hafter' = [hafter EXCEPT ![s] = closed[s]]
    /\ UNCHANGED <<hcbs, hidx, ctlVars, setVars, auxVars>>

\* line 365: s.mu.Lock()
updateSetLock(s) ==
    /\ hpc[s] = "lock"
    /\ mu[s] = None
    /\ mu' = [mu EXCEPT ![s] = s]
    /\ hpc' = [hpc EXCEPT ![s] = "check"]
    /\ UNCHANGED <<endpoints, callbacks, closed, hlist, hcbs, hidx, hafter, ctlVars, auxVars>>

\* line 366: if !isChanged(s.endpoints, list)
updateSetCheck(s) ==
    /\ hpc[s] = "check"
    /\ hpc' = [hpc EXCEPT ![s] =
                 IF ~isChanged(endpoints[s], hlist[s]) THEN "unlockSame" ELSE "store"]
    /\ UNCHANGED <<hlist, hcbs, hidx, hafter, ctlVars, setVars, auxVars>>

\* lines 367-368: s.mu.Unlock(); return
updateSetUnlockSame(s) ==
    /\ hpc[s] = "unlockSame"
    /\ mu' = [mu EXCEPT ![s] = None]
    /\ hpc' = [hpc EXCEPT ![s] = "idle"]
    /\ hlist' = [hlist EXCEPT ![s] = <<>>]
    /\ hafter' = [hafter EXCEPT ![s] = FALSE]
    /\ UNCHANGED <<endpoints, callbacks, closed, hcbs, hidx, ctlVars, auxVars>>

\* line 371: s.endpoints = list, the store of the slice header begins
updateSetStoreBegin(s) ==
    /\ hpc[s] = "store"
    /\ hpc' = [hpc EXCEPT ![s] = "storing"]
    /\ UNCHANGED <<hlist, hcbs, hidx, hafter, ctlVars, setVars, auxVars>>

\* line 371: the store is complete
updateSetStoreEnd(s) ==
    /\ hpc[s] = "storing"
    /\ endpoints' = [endpoints EXCEPT ![s] = hlist[s]]
    /\ hpc' = [hpc EXCEPT ![s] = "unlock"]
    /\ UNCHANGED <<callbacks, mu, closed, hlist, hcbs, hidx, hafter, ctlVars, auxVars>>

\* a stand-in for updateSetUnlock that goes on to the callbacks with s.mu held
updateSetUnlockKeepsMutex(s) ==
    /\ hpc[s] = "unlock"
    /\ hpc' = [hpc EXCEPT ![s] = "range"]
    /\ UNCHANGED <<endpoints, callbacks, mu, closed, hlist, hcbs, hidx, hafter, ctlVars, auxVars>>

\* line 372: s.mu.Unlock()
updateSetUnlock(s) ==
    /\ hpc[s] = "unlock"
    /\ mu' = [mu EXCEPT ![s] = None]
    /\ hpc' = [hpc EXCEPT ![s] = "range"]
    /\ UNCHANGED <<endpoints, callbacks, closed, hlist, hcbs, hidx, hafter, ctlVars, auxVars>>

\* lines 374-379: build state; the range expression s.callbacks is read once
updateSetRange(s) ==
    /\ hpc[s] = "range"
    /\ hcbs' = [hcbs EXCEPT ![s] = callbacks[s]]
    /\ hidx' = [hidx EXCEPT ![s] = 1]
    /\ hpc' = [hpc EXCEPT ![s] = "callbacks"]
    /\ UNCHANGED <<hlist, hafter, ctlVars, setVars, auxVars>>

\* line 380: f(state) for a callback other than Controller.ChangeFunc
updateSetCallOther(s) ==
    /\ hpc[s] = "callbacks"
    /\ hidx[s] <= Len(hcbs[s])
    /\ hcbs[s][hidx[s]] = OtherFunc
    /\ hidx' = [hidx EXCEPT ![s] = @ + 1]
    /\ UNCHANGED <<hpc, hlist, hcbs, hafter, ctlVars, setVars, auxVars>>

\* line 380: f(state) with f = Controller.ChangeFunc, the call begins
updateSetCallChangeFunc(s) ==
    /\ hpc[s] = "callbacks"
    /\ hidx[s] <= Len(hcbs[s])
    /\ hcbs[s][hidx[s]] = ControllerFunc
    /\ hpc' = [hpc EXCEPT ![s] = "inChangeFunc"]
    /\ cf' = [cf EXCEPT ![s] = [IdleCall EXCEPT !.pc = "rlock",
                                                !.prevFailed = cf[s].prevFailed]]
    /\ UNCHANGED <<cfg, csets, cmu, hlist, hcbs, hidx, hafter, setVars, auxVars>>

\* lines 379-382: the range loop is over, updateSet returns
updateSetReturn(s) ==
    /\ hpc[s] = "callbacks"
    /\ hidx[s] > Len(hcbs[s])
    /\ hpc' = [hpc EXCEPT ![s] = "idle"]
    /\ hlist' = [hlist EXCEPT ![s] = <<>>]
    /\ hcbs' = [hcbs EXCEPT ![s] = <<>>]
    /\ hidx' = [hidx EXCEPT ![s] = 0]
    /\ hafter' = [hafter EXCEPT ![s] = FALSE]
    /\ UNCHANGED <<ctlVars, setVars, auxVars>>

(***************************************************************************)
(* Controller.CurrentState, called by ChangeFunc on a handler task and by  *)
(* the reader task.                                                        *)
(***************************************************************************)
\* a reader (HTTP handler, logging loop) calls c.CurrentState()
ReaderCall ==
    /\ cf[Reader].pc = "idle"
    /\ cf' = [cf EXCEPT ![Reader] = [IdleCall EXCEPT !.pc = "rlock"]]
    /\ UNCHANGED <<cfg, csets, cmu, setVars, taskVars, auxVars>>

\* lines 43-44: c.mu.RLock(); the range loop evaluates c.sets once
CurrentStateRLock(t) ==
    /\ cf[t].pc = "rlock"
    /\ cmu' = cmu \cup {t}
    /\ cf' = [cf EXCEPT ![t].pc = "range", ![t].n = Len(csets),
                         ![t].i = 1, ![t].snap = <<>>]
    /\ UNCHANGED <<cfg, csets, setVars, taskVars, auxVars>>

\* line 45: s.State() begins to read the set's fields
CurrentStateRead(t) ==
    /\ cf[t].pc = "range"
    /\ cf[t].i <= cf[t].n
    /\ cf' = [cf EXCEPT ![t].pc = "reading"]
    /\ UNCHANGED <<cfg, csets, cmu, setVars, taskVars, auxVars>>

\* line 45: s.State() returns, the State is appended to currentState
CurrentStateAppend(t) ==
    /\ cf[t].pc = "reading"
    /\ \E eps \in StateReads(csets[cf[t].i]) :
          cf' = [cf EXCEPT ![t].pc = "range",
                           ![t].i = @ + 1,
                           ![t].snap = Append(@, MkState(csets[cf[t].i], eps))]
    /\ UNCHANGED <<cfg, csets, cmu, setVars, taskVars, auxVars>>

\* mutant of CurrentStateRUnlock: the read lock is kept after the loop
CurrentStateKeepsLock(t) ==
    /\ cf[t].pc = "range"
    /\ cf[t].i > cf[t].n
    /\ cf' = [cf EXCEPT ![t] = IF t = Reader THEN IdleCall
                                ELSE [@ EXCEPT !.pc = "export"]]
    /\ UNCHANGED <<cfg, csets, cmu, setVars, taskVars, auxVars>>

\* lines 47-49: c.mu.RUnlock(); return currentState
CurrentStateRUnlock(t) ==
    /\ cf[t].pc = "range"
    /\ cf[t].i > cf[t].n
    /\ cmu' = cmu \ {t}
    /\ cf' = [cf EXCEPT ![t] = IF t = Reader THEN IdleCall
                                ELSE [@ EXCEPT !.pc = "export"]]
    /\ UNCHANGED <<cfg, csets, setVars, taskVars, auxVars>>

(***************************************************************************)
(* Controller.ChangeFunc after its CurrentState() call.                    *)
(***************************************************************************)
\* the updateSet of a further set calls f(state) with f = Controller.ChangeFunc
OtherCallChangeFunc(t) ==
    /\ t \in Others
    /\ cf[t].pc = "idle"
    /\ cf' = [cf EXCEPT ![t] = [IdleCall EXCEPT !.pc = "rlock"]]
    /\ UNCHANGED <<cfg, csets, cmu, setVars, taskVars, auxVars>>

\* line 89: ChangeFunc returns to the updateSet of a further set
OtherReturn(t) ==
    /\ t \in Others
    /\ cf[t].pc = "return"
    /\ cf' = [cf EXCEPT ![t] = IdleCall]
    /\ UNCHANGED <<cfg, csets, cmu, setVars, taskVars, auxVars>>

\* mutant of AfterExport: the Exporter's error escapes to the caller
AfterExportEscapes(c, err) ==
    [c EXCEPT !.pc = "return",
              !.exp = IF err THEN "err" ELSE "ok",
              !.expArg = c.snap,
              !.raised = err]

\* the call record once c.Exporter.Export(currentState) has returned err
AfterExport(c, err) ==
    [c EXCEPT !.pc = "notify",
              !.exp = IF err THEN "err" ELSE "ok",
              !.expArg = c.snap]

\* the call record once c.Notifier.Notify(currentState) has returned err
AfterNotify(c, err) ==
    [c EXCEPT !.pc = "return",
              !.ntf = IF err THEN "err" ELSE "ok",
              !.ntfArg = c.snap]

\* lines 74-80: the Exporter, when there is one
ChangeFuncExport(t) ==
    /\ cf[t].pc = "export"
    /\ IF cfg.Exporter
       THEN \E err \in BOOLEAN : cf' = [cf EXCEPT ![t] = AfterExport(@, err)]
       ELSE cf' = [cf EXCEPT ![t].pc = "notify"]
    /\ UNCHANGED <<cfg, csets, cmu, setVars, taskVars, auxVars>>

\* lines 82-88: the Notifier, when there is one
ChangeFuncNotify(t) ==
    /\ cf[t].pc = "notify"
    /\ IF cfg.Notifier
       THEN \E err \in BOOLEAN : cf' = [cf EXCEPT ![t] = AfterNotify(@, err)]
       ELSE cf' = [cf EXCEPT ![t].pc = "return"]
    /\ UNCHANGED <<cfg, csets, cmu, setVars, taskVars, auxVars>>

\* line 89: ChangeFunc returns to updateSet's range loop; an error that
\* escaped it would end the handler task
ChangeFuncReturn(t) ==
    /\ cf[t].pc = "return"
    /\ hpc[t] = "inChangeFunc"
    /\ cf' = [cf EXCEPT ![t] =
                [IdleCall EXCEPT !.prevFailed = "err" \in {cf[t].exp, cf[t].ntf}]]
    /\ IF cf[t].raised
       THEN /\ hpc' = [hpc EXCEPT ![t] = "dead"]
            /\ UNCHANGED hidx
       ELSE /\ hpc' = [hpc EXCEPT ![t] = "callbacks"]
            /\ hidx' = [hidx EXCEPT ![t] = @ + 1]
    /\ UNCHANGED <<cfg, csets, cmu, hlist, hcbs, hafter, setVars, auxVars>>

(***************************************************************************)
(* The library and its clients.                                            *)
(***************************************************************************)
DiffIdle ==
    /\ diffPrev = <<>>
    /\ diffCur = <<>>
    /\ diffOut = [called |-> FALSE, fwd |-> FALSE, rev |-> FALSE]

MemIdle ==
    /\ memEps = <<>>
    /\ memAddr = "10.0.0.1"
    /\ memPort = 0
    /\ memOut = [called |-> FALSE, static |-> FALSE, kubernetes |-> FALSE]

NoRet == [State |-> <<>>, Registered |-> <<>>, Update |-> <<>>, Watch |-> <<>>]

StaticIdle ==
    /\ ssNew = [id |-> 2, Endpoints |-> <<>>]
    /\ ssSet = ssNew
    /\ ssCtx = "live"
    /\ ssWatch = "idle"
    /\ ssRet = NoRet
    /\ ssFired = {}

NoResponse == [status |-> 0, body |-> <<>>]

ReqIdle ==
    /\ reqRest = <<>>
    /\ reqState = <<>>
    /\ reqOut = [done |-> FALSE, check |-> NoResponse, list |-> NoResponse,
                 alias |-> NoResponse]

RunIdle ==
    /\ runDefs = [sets |-> 0, statics |-> 0, setIds |-> <<>>, staticIds |-> <<>>]
    /\ runSets = <<>>
    /\ runPc = "setup"
    /\ runI = 0
    /\ runLog = <<>>
    /\ runTimer = "none"
    /\ runCtx = "live"

MemoryIdle ==
    /\ arrays = <<>>
    /\ epRef = 0
    /\ outRef = 0
    /\ fpc = "idle"
    /\ held = {}

\* the slots for executions of updateSet on the set, and an empty slot
Executions == {"x1", "x2"}

NoExecution == [pc |-> "none", kind |-> "none", list |-> <<>>]

\* no State has been handed to a callback yet
NoDelivery == [any |-> FALSE, Endpoints |-> <<>>]

InformerIdle ==
    /\ infPending = <<>>
    /\ infExecs = [x \in Executions |-> NoExecution]
    /\ infEndpoints = <<>>
    /\ infMu = None
    /\ infPort = "5060"
    /\ infLast = "none"
    /\ infDelivered = NoDelivery

\* no method of the Controller has been called yet
NoCall == [op |-> "none", ret |-> "none", calls |-> <<>>]

SinkIdle ==
    /\ skLast = NoCall
    /\ skLog = <<>>

NoExport == [file |-> <<>>, err |-> "none"]

ExpIdle ==
    /\ expSets = <<>>
    /\ expOut = NoExport

\* the state in which main calls run(): no set, no goroutine, no channel
LegFresh ==
    /\ lctx = "live"
    /\ lmembers = <<>>
    /\ lsetCtx = "none"
    /\ lcloses = 0
    /\ mwpc = "none"
    /\ mwval = <<>>
    /\ wpc = "none"
    /\ wval = <<>>
    /\ mchanges = <<>>

LegIdle ==
    /\ lsignalled = FALSE
    /\ lpc = "main"
    /\ shortDeaths = 0
    /\ lret = <<>>
    /\ LegFresh

\* the Controller and its sets as constructed, before any call
MainIdle ==
    /\ csets = <<>>
    /\ cmu = {}
    /\ cf = [t \in Tasks |-> IdleCall]
    /\ endpoints = [s \in K8sSets |-> <<>>]
    /\ callbacks = [s \in K8sSets |-> <<>>]
    /\ mu = [s \in K8sSets |-> None]
    /\ hpc = [s \in K8sSets |-> "idle"]
    /\ hlist = [s \in K8sSets |-> <<>>]
    /\ hcbs = [s \in K8sSets |-> <<>>]
    /\ hidx = [s \in K8sSets |-> 0]
    /\ closed = [s \in K8sSets |-> FALSE]
    /\ hafter = [s \in K8sSets |-> FALSE]

Init ==
    /\ cfg \in [Exporter : BOOLEAN, Notifier : BOOLEAN]
    /\ csets = <<>>
    /\ cmu = {}
    /\ cf = [t \in Tasks |-> IdleCall]
    /\ endpoints = [s \in K8sSets |-> <<>>]
    /\ callbacks = [s \in K8sSets |-> <<>>]
    /\ mu = [s \in K8sSets |-> None]
    /\ hpc = [s \in K8sSets |-> "idle"]
    /\ hlist = [s \in K8sSets |-> <<>>]
    /\ hcbs = [s \in K8sSets |-> <<>>]
    /\ hidx = [s \in K8sSets |-> 0]
    /\ closed = [s \in K8sSets |-> FALSE]
    /\ hafter = [s \in K8sSets |-> FALSE]
    /\ DiffIdle
    /\ MemIdle
    /\ StaticIdle
    /\ ReqIdle
    /\ RunIdle
    /\ LegIdle
    /\ ExpIdle
    /\ MemoryIdle
    /\ InformerIdle
    /\ SinkIdle

Next ==
    \/ \E s \in AllSets : AddSet(s)
    \/ \E s \in K8sSets, f \in Callbacks : RegisterChangeFunc(s, f)
    \/ \E s \in K8sSets, obj \in Objects : updateSetBegin(s, obj)
    \/ \E s \in K8sSets : updateSetLock(s)
    \/ \E s \in K8sSets : updateSetCheck(s)
    \/ \E s \in K8sSets : updateSetUnlockSame(s)
    \/ \E s \in K8sSets : updateSetStoreBegin(s)
    \/ \E s \in K8sSets : updateSetStoreEnd(s)
    \/ \E s \in K8sSets : updateSetUnlock(s)
    \/ \E s \in K8sSets : updateSetRange(s)
    \/ \E s \in K8sSets : updateSetCallOther(s)
    \/ \E s \in K8sSets : updateSetCallChangeFunc(s)
    \/ \E s \in K8sSets : updateSetReturn(s)
    \/ ReaderCall
    \/ \E t \in Tasks : CurrentStateRLock(t)
    \/ \E t \in Tasks : CurrentStateRead(t)
    \/ \E t \in Tasks : CurrentStateAppend(t)
    \/ \E t \in Tasks : CurrentStateRUnlock(t)
    \/ \E t \in K8sSets : ChangeFuncExport(t)
    \/ \E t \in K8sSets : ChangeFuncNotify(t)
    \/ \E t \in K8sSets : ChangeFuncReturn(t)

Spec == Init /\ [][Next]_vars

\* the Controller serving the handler tasks of two further kubernetes sets
\* and a reader
NextTwo ==
    \/ \E s \in AllSets : AddSet(s)
    \/ ReaderCall
    \/ \E t \in Others : OtherCallChangeFunc(t)
    \/ \E t \in Tasks : CurrentStateRLock(t)
    \/ \E t \in Tasks : CurrentStateRead(t)
    \/ \E t \in Tasks : CurrentStateAppend(t)
    \/ \E t \in Tasks : CurrentStateRUnlock(t)
    \/ \E t \in Others : ChangeFuncExport(t)
    \/ \E t \in Others : ChangeFuncNotify(t)
    \/ \E t \in Others : OtherReturn(t)

SpecTwo == Init /\ [][NextTwo]_vars

\* the library with a client that also calls Close() on its kubernetes sets
NextClose ==
    \/ Next
    \/ \E s \in K8sSets : kubernetesSetClose(s)

SpecClose == Init /\ [][NextClose]_vars

(***************************************************************************)
(* isChanged as a pure function: the arguments are drawn from    *)
(* the bounded snapshots, the calls are made in both argument orders.      *)
(***************************************************************************)
DiffInit ==
    /\ diffPrev \in Snapshots
    /\ diffCur \in Snapshots
    /\ diffOut = [called |-> FALSE, fwd |-> FALSE, rev |-> FALSE]
    /\ cfg = [Exporter |-> TRUE, Notifier |-> TRUE]
    /\ csets = <<>>
    /\ cmu = {}
    /\ cf = [t \in Tasks |-> IdleCall]
    /\ endpoints = [s \in K8sSets |-> <<>>]
    /\ callbacks = [s \in K8sSets |-> <<>>]
    /\ mu = [s \in K8sSets |-> None]
    /\ hpc = [s \in K8sSets |-> "idle"]
    /\ hlist = [s \in K8sSets |-> <<>>]
    /\ hcbs = [s \in K8sSets |-> <<>>]
    /\ hidx = [s \in K8sSets |-> 0]
    /\ closed = [s \in K8sSets |-> FALSE]
    /\ hafter = [s \in K8sSets |-> FALSE]
    /\ MemIdle
    /\ StaticIdle
    /\ ReqIdle
    /\ RunIdle
    /\ LegIdle
    /\ ExpIdle
    /\ MemoryIdle
    /\ InformerIdle
    /\ SinkIdle

\* isChanged(previous, current) and isChanged(current, previous) are called
DiffCall ==
    /\ ~diffOut.called
    /\ diffOut' = [called |-> TRUE,
                   fwd |-> isChanged(diffPrev, diffCur),
                   rev |-> isChanged(diffCur, diffPrev)]
    /\ UNCHANGED <<diffPrev, diffCur, ctlVars, setVars, taskVars, memVars, ssVars, reqVars, runVars, legVars, expVars, memoryVars, informerVars, sinkVars>>

DiffNext == DiffCall

SpecDiff == DiffInit /\ [][DiffNext]_vars

(***************************************************************************)
(* IsMember as a pure function of the set's endpoints, the address and the *)
(* port (0: any port), for both kinds of set.                              *)
(***************************************************************************)
MemInit ==
    /\ memEps \in Snapshots
    /\ memAddr \in Addresses
    /\ memPort \in {0} \cup PortNumbers
    /\ memOut = [called |-> FALSE, static |-> FALSE, kubernetes |-> FALSE]
    /\ cfg = [Exporter |-> TRUE, Notifier |-> TRUE]
    /\ MainIdle
    /\ DiffIdle
    /\ StaticIdle
    /\ ReqIdle
    /\ RunIdle
    /\ LegIdle
    /\ ExpIdle
    /\ MemoryIdle
    /\ InformerIdle
    /\ SinkIdle

\* s.IsMember(addr, port) on a static and on a kubernetes set with these endpoints
MemCall ==
    /\ ~memOut.called
    /\ memOut' = [called |-> TRUE,
                  static |-> staticSetIsMember(memEps, memAddr, memPort),
                  kubernetes |-> kubernetesSetIsMember(memEps, memAddr, memPort)]
    /\ UNCHANGED <<memEps, memAddr, memPort, ctlVars, setVars, taskVars, diffVars, ssVars, reqVars, runVars, legVars, expVars, memoryVars, informerVars, sinkVars>>

MemNext == MemCall

SpecMember == MemInit /\ [][MemNext]_vars

(***************************************************************************)
(* A static set on its own: NewStaticSet and the methods of staticSet, the *)
(* v2 ones (State, RegisterChangeFunc) and the ones of the Watch/Update    *)
(* generation (package sets: Update, Watch).  A client calls them in any   *)
(* order and cancels the context it handed to Watch at any time.           *)
(***************************************************************************)
StaticIds == {1, 2}

StaticInit ==
    /\ ssNew \in [id : StaticIds, Endpoints : Snapshots]
    /\ ssSet = ssNew
    /\ ssCtx = "live"
    /\ ssWatch = "idle"
    /\ ssRet = NoRet
    /\ ssFired = {}
    /\ cfg = [Exporter |-> TRUE, Notifier |-> TRUE]
    /\ MainIdle
    /\ DiffIdle
    /\ MemIdle
    /\ ReqIdle
    /\ RunIdle
    /\ LegIdle
    /\ ExpIdle
    /\ MemoryIdle
    /\ InformerIdle
    /\ SinkIdle

ssRest == <<ctlVars, setVars, taskVars, diffVars, memVars, reqVars, runVars, legVars, expVars, memoryVars, informerVars, sinkVars>>

\* State(): &State{ID: s.id, Endpoints: s.Endpoints}
staticSetState ==
    /\ ssRet' = [ssRet EXCEPT !.State = <<[ID |-> ssSet.id, Endpoints |-> ssSet.Endpoints]>>]
    /\ UNCHANGED <<ssNew, ssSet, ssCtx, ssWatch, ssFired, ssRest>>

\* RegisterChangeFunc(f): the body is empty, f is dropped
staticSetRegisterChangeFunc(f) ==
    /\ ssRet' = [ssRet EXCEPT !.Registered = <<f>>]
    /\ UNCHANGED <<ssNew, ssSet, ssCtx, ssWatch, ssFired, ssRest>>

\* Update(ctx): return false, nil
staticSetUpdate ==
    /\ ssRet' = [ssRet EXCEPT !.Update = <<[changed |-> FALSE, err |-> None]>>]
    /\ UNCHANGED <<ssNew, ssSet, ssCtx, ssWatch, ssFired, ssRest>>

\* Watch(ctx) is called and blocks on <-ctx.Done()
staticSetWatch ==
    /\ ssWatch = "idle"
    /\ ssWatch' = "waiting"
    /\ UNCHANGED <<ssNew, ssSet, ssCtx, ssRet, ssFired, ssRest>>

\* ctx.Err() of a context: nil until it is done
ctxErr(ctx) == IF ctx = "done" THEN "context canceled" ELSE None

\* mutant of staticSetWatchReturn: Watch does not wait for ctx.Done()
staticSetWatchReturnsEarly ==
    /\ ssWatch = "waiting"
    /\ ssWatch' = "idle"
    /\ ssRet' = [ssRet EXCEPT !.Watch = <<[err |-> ctxErr(ssCtx)]>>]
    /\ UNCHANGED <<ssNew, ssSet, ssCtx, ssFired, ssRest>>

\* <-ctx.Done() has returned: return s.Export(), ctx.Err()
staticSetWatchReturn ==
    /\ ssWatch = "waiting"
    /\ ssCtx = "done"
    /\ ssWatch' = "idle"
    /\ ssRet' = [ssRet EXCEPT !.Watch = <<[err |-> ctxErr(ssCtx)]>>]
    /\ UNCHANGED <<ssNew, ssSet, ssCtx, ssFired, ssRest>>

\* the client cancels the context
staticCancel ==
    /\ ssCtx = "live"
    /\ ssCtx' = "done"
    /\ UNCHANGED <<ssNew, ssSet, ssWatch, ssRet, ssFired, ssRest>>

StaticNext ==
    \/ staticSetState
    \/ \E f \in Callbacks : staticSetRegisterChangeFunc(f)
    \/ staticSetUpdate
    \/ staticSetWatch
    \/ staticSetWatchReturn
    \/ staticCancel

SpecStatic == StaticInit /\ [][StaticNext]_vars

(***************************************************************************)
(* The HTTP service (httpService.Run and its two handlers).  A URL path is *)
(* a sequence of symbols: "/", the words of the route prefixes, digits, a  *)
(* letter and an address.  Each request path is served on the three        *)
(* registered routes, on the State list CurrentState() returns.            *)
(***************************************************************************)
Slash == "/"

Digits == {"1", "2", "9"}

PathSymbols == {Slash, "x", "10.0.0.1"} \cup Digits

Paths == SeqsUpTo(PathSymbols, MaxPath)

\* the route prefixes "/check/", "/dispatcher/" and "/dispatchers/"
CheckPrefix == <<Slash, "check", Slash>>

DispatcherPrefix == <<Slash, "dispatcher", Slash>>

DispatchersPrefix == <<Slash, "dispatcher", "s", Slash>>

\* the State lists of the deployment: no set, the kubernetes set, both sets
ReqStates ==
    {<<>>}
    \cup {<<MkState("K1", e)>> : e \in SeqsUpTo(Endpoint, MaxEndpoints)}
    \cup {<<MkState("K1", e), MkState("S1", SetDef["S1"].Endpoints)>> :
              e \in SeqsUpTo(Endpoint, MaxEndpoints)}

StatusOK == 200

StatusBadRequest == 400

StatusNotFound == 404

\* strings.TrimPrefix
TrimPrefix(s, prefix) ==
    IF Len(s) >= Len(prefix) /\ SubSeq(s, 1, Len(prefix)) = prefix
    THEN SubSeq(s, Len(prefix) + 1, Len(s))
    ELSE s

RECURSIVE Split(_)
\* strings.Split(s, "/")
Split(s) ==
    IF \A k \in 1..Len(s) : s[k] # Slash THEN <<s>>
    ELSE LET k == CHOOSE k \in 1..Len(s) :
                      s[k] = Slash /\ \A j \in 1..(k - 1) : s[j] # Slash
         IN  <<SubSeq(s, 1, k - 1)>> \o Split(SubSeq(s, k + 1, Len(s)))

DigitVal(d) == CASE d = "1" -> 1 [] d = "2" -> 2 [] d = "9" -> 9

RECURSIVE Decimal(_)
Decimal(ds) ==
    IF ds = <<>> THEN 0
    ELSE 10 * Decimal(SubSeq(ds, 1, Len(ds) - 1)) + DigitVal(ds[Len(ds)])

\* strconv.Atoi on a piece of the path
AtoiPiece(piece) ==
    IF piece # <<>> /\ \A k \in 1..Len(piece) : piece[k] \in Digits
    THEN [val |-> Decimal(piece), err |-> FALSE]
    ELSE [val |-> 0, err |-> TRUE]

\* json.NewEncoder(w).Encode(set)
jsonEncode(set) ==
    <<"{", "ID", set.ID, "Endpoints",
      [i \in 1..Len(set.Endpoints) |->
          <<"{", "Address", set.Endpoints[i].Address,
            "Port", set.Endpoints[i].Port, "}">>], "}">>

\* mutant of checkLoop: the set ID is not compared
checkLoopAnySet(state, setID, addr) ==
    IF \E i \in 1..Len(state) :
          \E j \in 1..Len(state[i].Endpoints) :
              <<state[i].Endpoints[j].Address>> = addr
    THEN StatusOK
    ELSE StatusNotFound

\* lines 41-54: the loops over the sets and over the endpoints of those with
\* the ID asked for
checkLoop(state, setID, addr) ==
    IF \E i \in 1..Len(state) :
          /\ state[i].ID = setID
          /\ \E j \in 1..Len(state[i].Endpoints) :
                 <<state[i].Endpoints[j].Address>> = addr
    THEN StatusOK
    ELSE StatusNotFound

handleIPCheckRequest(path, state) ==
    LET pieces == Split(TrimPrefix(path, CheckPrefix))
    IN  IF Len(pieces) # 2 THEN [status |-> StatusBadRequest, body |-> <<>>]
        ELSE LET a == AtoiPiece(pieces[1])
             IN  IF a.err THEN [status |-> StatusBadRequest, body |-> <<>>]
                 ELSE [status |-> checkLoop(state, a.val, pieces[2]), body |-> <<>>]

RECURSIVE listLoop(_, _, _)
\* lines 72-85: the loop over the sets from index i on; the first set with
\* the ID asked for is encoded
listLoop(state, setID, i) ==
    IF i > Len(state) THEN [status |-> StatusNotFound, body |-> <<>>]
    ELSE IF state[i].ID # setID THEN listLoop(state, setID, i + 1)
    ELSE [status |-> StatusOK, body |-> jsonEncode(state[i])]

handleListSetRequest(path, state) ==
    LET pieces == Split(TrimPrefix(path, DispatcherPrefix))
    IN  IF Len(pieces) # 1 THEN [status |-> StatusBadRequest, body |-> <<>>]
        ELSE LET a == AtoiPiece(pieces[1])
             IN  IF a.err THEN [status |-> StatusBadRequest, body |-> <<>>]
                 ELSE listLoop(state, a.val, 1)

ReqInit ==
    /\ reqRest \in Paths
    /\ reqState \in ReqStates
    /\ reqOut = [done |-> FALSE, check |-> NoResponse, list |-> NoResponse,
                 alias |-> NoResponse]
    /\ cfg = [Exporter |-> TRUE, Notifier |-> TRUE]
    /\ MainIdle
    /\ DiffIdle
    /\ MemIdle
    /\ StaticIdle
    /\ RunIdle
    /\ LegIdle
    /\ ExpIdle
    /\ MemoryIdle
    /\ InformerIdle
    /\ SinkIdle

\* the request is sent to each route; the mux hands it to the handler
\* registered for the route's prefix
ReqServe ==
    /\ ~reqOut.done
    /\ reqOut' = [done |-> TRUE,
                  check |-> handleIPCheckRequest(CheckPrefix \o reqRest, reqState),
                  list |-> handleListSetRequest(DispatcherPrefix \o reqRest, reqState),
                  alias |-> handleListSetRequest(DispatchersPrefix \o reqRest, reqState)]
    /\ UNCHANGED <<reqRest, reqState, ctlVars, setVars, taskVars, diffVars, memVars, ssVars, runVars, legVars, expVars, memoryVars, informerVars, sinkVars>>

ReqNext == ReqServe

SpecHTTP == ReqInit /\ [][ReqNext]_vars

(***************************************************************************)
(* The daemon: main and run of cmd/dispatchers.  runLog records, in order, *)
(* each operation run() and its timer perform on the sets and the sinks.   *)
(***************************************************************************)
RunInit ==
    /\ runDefs \in {[sets |-> Len(a), statics |-> Len(b), setIds |-> a, staticIds |-> b] :
                      a \in SeqsUpTo(StaticIds, MaxDefs), b \in SeqsUpTo(StaticIds, MaxDefs)}
    /\ runSets = <<>>
    /\ runPc = "setup"
    /\ runI = 0
    /\ runLog = <<>>
    /\ runTimer = "none"
    /\ runCtx = "live"
    /\ cfg = [Exporter |-> TRUE, Notifier |-> TRUE]
    /\ MainIdle
    /\ DiffIdle
    /\ MemIdle
    /\ StaticIdle
    /\ ReqIdle
    /\ LegIdle
    /\ ExpIdle
    /\ MemoryIdle
    /\ InformerIdle
    /\ SinkIdle

runRest == <<ctlVars, setVars, taskVars, diffVars, memVars, ssVars, reqVars, legVars, expVars, memoryVars, informerVars, sinkVars>>

\* lines 61-95: the stop context, the kubernetes client, the exporter and the
\* Controller; a failure makes run return the error
runSetup(ok) ==
    /\ runPc = "setup"
    /\ runPc' = IF ok THEN "sets" ELSE "exit"
    /\ UNCHANGED <<runDefs, runSets, runI, runLog, runTimer, runCtx, runRest>>

\* lines 99-106: NewKubernetesSet and controller.AddSet for a -set definition
runAddKubernetesSet ==
    /\ runPc = "sets"
    /\ runI < runDefs.sets
    /\ runI' = runI + 1
    /\ runSets' = Append(runSets, runDefs.setIds[runI + 1])
    /\ runLog' = Append(runLog, "AddSet")
    /\ UNCHANGED <<runDefs, runPc, runTimer, runCtx, runRest>>

\* line 106: the loop over the -set definitions is over
runSetsDone ==
    /\ runPc = "sets"
    /\ runI = runDefs.sets
    /\ runPc' = "statics"
    /\ runI' = 0
    /\ UNCHANGED <<runDefs, runSets, runLog, runTimer, runCtx, runRest>>

\* lines 108-110: controller.AddSet(sets.NewStaticSet(...)) for a -static definition
runAddStaticSet ==
    /\ runPc = "statics"
    /\ runI < runDefs.statics
    /\ runI' = runI + 1
    /\ runSets' = Append(runSets, runDefs.staticIds[runI + 1])
    /\ runLog' = Append(runLog, "AddSet")
    /\ UNCHANGED <<runDefs, runPc, runTimer, runCtx, runRest>>

\* lines 116-127: time.AfterFunc(KamailioStartupDebounceTimer, ...), then the
\* HTTP service when asked for; run enters its loop
runAfterFunc ==
    /\ runPc = "statics"
    /\ runI = runDefs.statics
    /\ runTimer' = "armed"
    /\ runLog' = Append(runLog, "AfterFunc")
    /\ runPc' = "loop"
    /\ runI' = 0
    /\ UNCHANGED <<runDefs, runSets, runCtx, runRest>>

\* lines 117-119: the timer fires, controller.Notify()
runTimerNotify ==
    /\ runTimer = "armed"
    /\ runPc # "exit"
    /\ runTimer' = "fired"
    /\ runLog' = Append(runLog, "Notify")
    /\ UNCHANGED <<runDefs, runSets, runPc, runI, runCtx, runRest>>

\* newStopContext: SIGINT or SIGTERM cancels the context
runSignal ==
    /\ runCtx = "live"
    /\ runPc # "exit"
    /\ runCtx' = "done"
    /\ UNCHANGED <<runDefs, runSets, runPc, runI, runLog, runTimer, runRest>>

\* lines 129-140 and main: the loop ends with the context, run returns and
\* main exits
runReturn ==
    /\ runPc = "loop"
    /\ runCtx = "done"
    /\ runPc' = "exit"
    /\ UNCHANGED <<runDefs, runSets, runI, runLog, runTimer, runCtx, runRest>>

RunNext ==
    \/ \E ok \in BOOLEAN : runSetup(ok)
    \/ runAddKubernetesSet
    \/ runSetsDone
    \/ runAddStaticSet
    \/ runAfterFunc
    \/ runTimerNotify
    \/ runSignal
    \/ runReturn

SpecRun == RunInit /\ [][RunNext]_vars

(***************************************************************************)
(* The Watch generation of the daemon (src/main.go, src/sets/sets.go,      *)
(* src/internal/endpoints/endpoints.go) with one kubernetes set.  main     *)
(* calls run() again and again; run() builds the set, updates and exports  *)
(* it once and then sits in maintain().  An error value is the chain of    *)
(* its wrap messages ending in its cause; nil is the empty chain.          *)
(***************************************************************************)
maxShortDeaths == 10

\* capacity of maintain's channel: make(chan error, 10)
changesCap == 10

Nil == <<>>

ioEOF == <<"EOF">>

ctxCanceled == <<"context canceled">>

\* errors.Wrap(err, msg)
Wrap(err, msg) == <<msg>> \o err

\* errors.Cause(err)
Cause(err) == err[Len(err)]

\* the failure of a request to the Kubernetes API
apiRefused == <<"connection refused">>

\* the failures of the Kubernetes API: a refused request, the end of a watch stream
ApiFailures == {apiRefused, ioEOF}

MemberLists == SeqsUpTo(Addresses, MaxEndpoints)

\* the membership diff of the set, as section 4.3 states it
differ(a, b) == Len(a) # Len(b) \/ Range(a) # Range(b)

\* kubernetesSet.Export() of the Watch generation: header line, then a line per member
setsExport(id, members, port) ==
    <<<<"#", id>>>> \o [i \in 1..Len(members) |-> <<id, members[i], port>>]

\* the one set of the deployment: -set [namespace:]name=1, port defaulting to "5060"
legSet == [id |-> 1, port |-> "5060"]

legRest == <<ctlVars, setVars, taskVars, diffVars, memVars, ssVars, reqVars, runVars, expVars, memoryVars, informerVars, sinkVars>>

legSetVars == <<lmembers, lsetCtx, lcloses, mwpc, mwval>>

legWatcherVars == <<wpc, wval, mchanges>>

\* main: another run while the short deaths are few, else os.Exit(1)
legMain ==
    /\ lpc = "main"
    /\ lpc' = IF shortDeaths < Min(maxShortDeaths, MaxDeaths) THEN "add" ELSE "exit"
    /\ lret' = Nil
    /\ UNCHANGED <<shortDeaths, lsignalled, lctx, legSetVars, legWatcherVars, legRest>>

\* run() has returned: its deferred cancel, the count of a short run, and
\* the next run starts with nothing of this one
legRunDied(short) ==
    /\ lpc = "died"
    /\ lpc' = "main"
    /\ shortDeaths' = IF short THEN shortDeaths + 1 ELSE shortDeaths
    /\ lctx' = "live"
    /\ lmembers' = <<>>
    /\ lsetCtx' = "none"
    /\ lcloses' = 0
    /\ mwpc' = "none"
    /\ mwval' = <<>>
    /\ wpc' = "none"
    /\ wval' = <<>>
    /\ mchanges' = <<>>
    /\ UNCHANGED <<lret, lsignalled, legRest>>

\* run: s.add, i.e. NewKubernetesSet: the set's context and its maintainWatch goroutine
dispatcherSetsAdd ==
    /\ lpc = "add"
    /\ lpc' = "update"
    /\ lsetCtx' = lctx
    /\ mwpc' = "loop"
    /\ UNCHANGED <<shortDeaths, lsignalled, lret, lctx, lmembers, lcloses, mwval,
                   legWatcherVars, legRest>>

\* kubernetesSet.Update: the fetched list is committed, an error leaves members alone
setsUpdate(list, err) ==
    lmembers' = IF err = Nil THEN list ELSE lmembers

\* run: the initial s.update; its error ends run
dispatcherSetsUpdate(list, err) ==
    /\ lpc = "update"
    /\ setsUpdate(list, err)
    /\ lpc' = IF err = Nil THEN "export" ELSE "died"
    /\ UNCHANGED <<shortDeaths, lsignalled, lret, lctx, lsetCtx, lcloses, mwpc, mwval,
                   legWatcherVars, legRest>>

\* run: the initial s.export; its error ends run
dispatcherSetsExport(ok) ==
    /\ lpc = "export"
    /\ lpc' = IF ok THEN "maintain" ELSE "died"
    /\ UNCHANGED <<shortDeaths, lsignalled, lret, lctx, legSetVars, legWatcherVars, legRest>>

\* maintain: the channel and the goroutine that calls Watch for the set
maintainStart ==
    /\ lpc = "maintain"
    /\ lpc' = "mloop"
    /\ wpc' = "watch"
    /\ mchanges' = <<>>
    /\ UNCHANGED <<shortDeaths, lsignalled, lret, lctx, legSetVars, wval, legRest>>

\* maintain: for ctx.Err() == nil, else return ctx.Err()
maintainLoop ==
    /\ lpc = "mloop"
    /\ IF lctx = "live"
         THEN lpc' = "recv" /\ UNCHANGED lret
         ELSE lpc' = "died" /\ lret' = ctxCanceled
    /\ UNCHANGED <<shortDeaths, lsignalled, lctx, legSetVars, legWatcherVars, legRest>>

\* maintain: err := <-changes; io.EOF itself returns nil, any other error
\* returns wrapped, nil goes on to export
maintainRecv ==
    /\ lpc = "recv"
    /\ mchanges # <<>>
    /\ mchanges' = Tail(mchanges)
    /\ LET err == Head(mchanges) IN
         IF err = ioEOF THEN lpc' = "died" /\ lret' = Nil
         ELSE IF err # Nil
           THEN lpc' = "died" /\ lret' = Wrap(err, "error maintaining sets")
           ELSE lpc' = "mexport" /\ UNCHANGED lret
    /\ UNCHANGED <<shortDeaths, lsignalled, lctx, legSetVars, wpc, wval, legRest>>

\* maintain: s.export(); its error returns
maintainExport(ok) ==
    /\ lpc = "mexport"
    /\ IF ok
         THEN lpc' = "mnotify" /\ UNCHANGED lret
         ELSE /\ lpc' = "died"
              /\ lret' = Wrap(<<"write failed">>, "failed to export dispatcher set")
    /\ UNCHANGED <<shortDeaths, lsignalled, lctx, legSetVars, legWatcherVars, legRest>>

\* maintain: s.notify(); its error returns
maintainNotify(ok) ==
    /\ lpc = "mnotify"
    /\ IF ok
         THEN lpc' = "mloop" /\ UNCHANGED lret
         ELSE /\ lpc' = "died"
              /\ lret' = Wrap(<<"rpc failed">>, "failed to notify kamailio of update")
    /\ UNCHANGED <<shortDeaths, lsignalled, lctx, legSetVars, legWatcherVars, legRest>>

\* newStopContext: a signal cancels run's context and the contexts derived from it
legSignal ==
    /\ lpc \notin {"main", "died", "exit"}
    /\ lctx = "live"
    /\ lctx' = "done"
    /\ lsetCtx' = IF lsetCtx = "none" THEN "none" ELSE "done"
    /\ lsignalled' = TRUE
    /\ UNCHANGED <<lpc, shortDeaths, lret, lmembers, lcloses, mwpc, mwval,
                   legWatcherVars, legRest>>

\* a stand-in for setsClose that also drops the members
setsCloseClearsMembers ==
    /\ lsetCtx # "none"
    /\ lcloses < MaxCloses
    /\ lcloses' = lcloses + 1
    /\ lsetCtx' = "done"
    /\ lmembers' = <<>>
    /\ UNCHANGED <<lpc, shortDeaths, lsignalled, lret, lctx, mwpc, mwval,
                   legWatcherVars, legRest>>

\* kubernetesSet.Close: s.cancel(), which cancels the set's context
setsClose ==
    /\ lsetCtx # "none"
    /\ lcloses < MaxCloses
    /\ lcloses' = lcloses + 1
    /\ lsetCtx' = "done"
    /\ UNCHANGED <<lpc, shortDeaths, lsignalled, lret, lctx, lmembers, mwpc, mwval,
                   legWatcherVars, legRest>>

\* maintainWatch: for ctx.Err() == nil
setsMaintainWatch ==
    /\ mwpc = "loop"
    /\ mwpc' = IF lsetCtx = "live" THEN "open" ELSE "done"
    /\ UNCHANGED <<lpc, shortDeaths, lsignalled, lret, lctx, lmembers, lsetCtx, lcloses,
                   mwval, legWatcherVars, legRest>>

\* endpoints.Watch: c.Watch; a failure is sent on s.changes before it is returned
endpointsWatchOpen(err) ==
    /\ mwpc = "open"
    /\ lsetCtx = "done" <=> err = ctxCanceled
    /\ IF err = Nil
         THEN mwpc' = "next" /\ UNCHANGED mwval
         ELSE mwpc' = "sendW" /\ mwval' = Wrap(err, "failed to watch namespace")
    /\ UNCHANGED <<lpc, shortDeaths, lsignalled, lret, lctx, lmembers, lsetCtx, lcloses,
                   legWatcherVars, legRest>>

\* endpoints.Watch: for ctx.Err() == nil, w.Next; an event sends nil, a
\* failure is sent and returned; a cancelled context returns ctx.Err(),
\* which maintainWatch sends
endpointsWatchNext(err) ==
    /\ mwpc = "next"
    /\ IF lsetCtx = "done"
         THEN mwpc' = "sendM" /\ mwval' = ctxCanceled
         ELSE /\ mwpc' = "sendW"
              /\ mwval' = IF err = Nil THEN Nil ELSE Wrap(err, "failure during watch")
    /\ UNCHANGED <<lpc, shortDeaths, lsignalled, lret, lctx, lmembers, lsetCtx, lcloses,
                   legWatcherVars, legRest>>

\* the unbuffered s.changes: a send of maintainWatch's side meets the
\* receive in Watch's select; an error makes Watch return it
setsWatchChanges ==
    /\ wpc = "select"
    /\ mwpc \in {"sendW", "sendM"}
    /\ IF mwpc = "sendM" THEN mwpc' = "sleep" /\ mwval' = Nil
       ELSE IF mwval = Nil THEN mwpc' = "next" /\ UNCHANGED mwval
       ELSE mwpc' = "sendM" /\ UNCHANGED mwval
    /\ IF mwval # Nil
         THEN wpc' = "send" /\ wval' = mwval
         ELSE wpc' = "update" /\ UNCHANGED wval
    /\ UNCHANGED <<lpc, shortDeaths, lsignalled, lret, lctx, lmembers, lsetCtx, lcloses,
                   mchanges, legRest>>

\* a stand-in for setsMaintainWatchSleep that gives up after the failure
setsMaintainWatchGivesUp ==
    /\ mwpc = "sleep"
    /\ mwpc' = "done"
    /\ UNCHANGED <<lpc, shortDeaths, lsignalled, lret, lctx, lmembers, lsetCtx, lcloses,
                   mwval, legWatcherVars, legRest>>

\* maintainWatch: time.Sleep(time.Second)
setsMaintainWatchSleep ==
    /\ mwpc = "sleep"
    /\ mwpc' = "loop"
    /\ UNCHANGED <<lpc, shortDeaths, lsignalled, lret, lctx, lmembers, lsetCtx, lcloses,
                   mwval, legWatcherVars, legRest>>

\* Watch: for ctx.Err() == nil, else return ctx.Err()
setsWatch ==
    /\ wpc = "watch"
    /\ IF lctx = "live"
         THEN wpc' = "select" /\ UNCHANGED wval
         ELSE wpc' = "send" /\ wval' = ctxCanceled
    /\ UNCHANGED <<lpc, shortDeaths, lsignalled, lret, lctx, legSetVars, mchanges, legRest>>

\* a stand-in for setsWatchTimer that fires only while the watch stream is open
setsWatchTimerNeedsStream ==
    /\ wpc = "select"
    /\ mwpc = "next"
    /\ wpc' = "update"
    /\ UNCHANGED <<lpc, shortDeaths, lsignalled, lret, lctx, legSetVars, wval, mchanges, legRest>>

\* Watch: case <-time.After(maxUpdateInterval)
setsWatchTimer ==
    /\ wpc = "select"
    /\ wpc' = "update"
    /\ UNCHANGED <<lpc, shortDeaths, lsignalled, lret, lctx, legSetVars, wval, mchanges, legRest>>

\* a stand-in for setsWatchUpdate that returns nil after every Update without error
setsWatchUpdateAlways(list, err) ==
    /\ wpc = "update"
    /\ setsUpdate(list, err)
    /\ wpc' = "send"
    /\ wval' = IF err # Nil THEN Wrap(err, "failed to get updated data") ELSE Nil
    /\ UNCHANGED <<lpc, shortDeaths, lsignalled, lret, lctx, lsetCtx, lcloses, mwpc, mwval,
                   mchanges, legRest>>

\* Watch: s.Update; an error returns wrapped, a change returns nil, no
\* change goes round the loop
setsWatchUpdate(list, err) ==
    /\ wpc = "update"
    /\ setsUpdate(list, err)
    /\ IF err # Nil
         THEN wpc' = "send" /\ wval' = Wrap(err, "failed to get updated data")
         ELSE IF differ(lmembers, list)
           THEN wpc' = "send" /\ wval' = Nil
           ELSE wpc' = "watch" /\ UNCHANGED wval
    /\ UNCHANGED <<lpc, shortDeaths, lsignalled, lret, lctx, lsetCtx, lcloses, mwpc, mwval,
                   mchanges, legRest>>

\* maintain's goroutine: changes <- err, then Watch again
maintainSend ==
    /\ wpc = "send"
    /\ Len(mchanges) < Min(changesCap, MaxQueue)
    /\ mchanges' = Append(mchanges, wval)
    /\ wpc' = "watch"
    /\ wval' = Nil
    /\ UNCHANGED <<lpc, shortDeaths, lsignalled, lret, lctx, legSetVars, legRest>>

\* endpoints.Get: c.Get fails, or the addresses of the endpoints
GetErrors == {Wrap(apiRefused, "failed to list endpoints")}

LegInit ==
    /\ LegIdle
    /\ cfg = [Exporter |-> TRUE, Notifier |-> TRUE]
    /\ MainIdle
    /\ DiffIdle
    /\ MemIdle
    /\ StaticIdle
    /\ ReqIdle
    /\ RunIdle
    /\ ExpIdle
    /\ MemoryIdle
    /\ InformerIdle
    /\ SinkIdle

LegNext ==
    \/ legMain
    \/ \E short \in BOOLEAN : legRunDied(short)
    \/ dispatcherSetsAdd
    \/ \E list \in MemberLists : dispatcherSetsUpdate(list, Nil)
    \/ \E err \in GetErrors : dispatcherSetsUpdate(<<>>, err)
    \/ \E ok \in BOOLEAN : dispatcherSetsExport(ok)
    \/ maintainStart
    \/ maintainLoop
    \/ maintainRecv
    \/ \E ok \in BOOLEAN : maintainExport(ok)
    \/ \E ok \in BOOLEAN : maintainNotify(ok)
    \/ legSignal
    \/ setsClose
    \/ setsMaintainWatch
    \/ \E err \in {Nil, ctxCanceled, apiRefused} : endpointsWatchOpen(err)
    \/ \E err \in {Nil, ioEOF} : endpointsWatchNext(err)
    \/ setsWatchChanges
    \/ setsMaintainWatchSleep
    \/ setsWatch
    \/ setsWatchTimer
    \/ \E list \in MemberLists : setsWatchUpdate(list, Nil)
    \/ \E err \in GetErrors : setsWatchUpdate(<<>>, err)
    \/ maintainSend

SpecLegacy == LegInit /\ [][LegNext]_vars

\* the steps of the goroutine running maintainWatch, but for its sends
maintainWatchSteps ==
    \/ setsMaintainWatch
    \/ \E err \in {Nil, ctxCanceled, apiRefused} : endpointsWatchOpen(err)
    \/ \E err \in {Nil, ioEOF} : endpointsWatchNext(err)
    \/ setsMaintainWatchSleep

\* the steps of maintain's goroutine calling Watch, but for its receive on s.changes
watcherSteps ==
    \/ setsWatch
    \/ setsWatchTimer
    \/ \E list \in MemberLists : setsWatchUpdate(list, Nil)
    \/ \E err \in GetErrors : setsWatchUpdate(<<>>, err)
    \/ maintainSend

\* the steps of the main goroutine: main, run, maintain
mainSteps ==
    \/ legMain
    \/ \E short \in BOOLEAN : legRunDied(short)
    \/ dispatcherSetsAdd
    \/ \E list \in MemberLists : dispatcherSetsUpdate(list, Nil)
    \/ \E err \in GetErrors : dispatcherSetsUpdate(<<>>, err)
    \/ \E ok \in BOOLEAN : dispatcherSetsExport(ok)
    \/ maintainStart
    \/ maintainLoop
    \/ maintainRecv
    \/ \E ok \in BOOLEAN : maintainExport(ok)
    \/ \E ok \in BOOLEAN : maintainNotify(ok)

\* the Go scheduler runs every goroutine that can take a step; a select
\* with a sender waiting on s.changes takes that case, its timer being far
\* off.  Signals and calls of Close() are not bound to happen.
SpecLegacyFair ==
    /\ SpecLegacy
    /\ WF_vars(maintainWatchSteps)
    /\ WF_vars(watcherSteps)
    /\ WF_vars(mainSteps)
    /\ SF_vars(setsWatchChanges)

(***************************************************************************)
(* Claims.                                                                 *)
(***************************************************************************)

\* C1: once AddSet has registered a kubernetes set with the Controller, the
\* Controller's ChangeFunc is among that set's callbacks.
C1_AddSetRegistersChangeFunc ==
    \A i \in 1..Len(csets) :
        csets[i] \in K8sSets => ControllerFunc \in Range(callbacks[csets[i]])

\* C2: a recompute whose derived membership is the one already committed
\* (the second and later of N identical recomputes) does not go on to commit
\* and invoke the registered callbacks.
C2_IdenticalRecomputeFiresNothing ==
    \A s \in K8sSets :
        (hpc[s] = "store" /\ callbacks[s] # <<>>) => endpoints[s] # hlist[s]

\* C3: a recompute returns without committing (and so without invoking any
\* callback) only when the derived membership has the same (Address,Port)
\* pairs as the committed one; any difference is committed.
C3_DifferenceIsCommitted ==
    \A s \in K8sSets :
        hpc[s] = "unlockSame" => Pairs(endpoints[s]) = Pairs(hlist[s])

\* every pair of a has a match in b
Matched(a, b) == \A i \in 1..Len(a) : FoundIn(a[i], b)

\* C4: isChanged reports changed when the counts differ, and for equal counts
\* reports unchanged exactly when every pair of current has a match in
\* previous and every pair of previous has a match in current.
C4_DiffIsPairSetEquality ==
    diffOut.called =>
        (diffOut.fwd = FALSE <=>
            /\ Len(diffPrev) = Len(diffCur)
            /\ Matched(diffCur, diffPrev)
            /\ Matched(diffPrev, diffCur))

\* C5: isChanged(A, A) reports unchanged for every snapshot A, the empty one
\* included.
C5_DiffReflexive ==
    (diffOut.called /\ diffPrev = diffCur) => diffOut.fwd = FALSE

\* C6: isChanged(A, B) and isChanged(B, A) have the same truth value, also
\* for snapshots holding a duplicated pair.
C6_DiffSymmetric ==
    diffOut.called => diffOut.fwd = diffOut.rev

\* b is a with its elements in another order
Reordered(a, b) ==
    /\ Len(a) = Len(b)
    /\ a # b
    /\ \E p \in [1..Len(a) -> 1..Len(a)] :
          /\ \A i, j \in 1..Len(a) : i # j => p[i] # p[j]
          /\ \A i \in 1..Len(a) : b[i] = a[p[i]]

\* C7: isChanged(A, B) reports unchanged when B is a permutation of A.
C7_DiffOrderIndependent ==
    (diffOut.called /\ Reordered(diffPrev, diffCur)) => diffOut.fwd = FALSE

\* C8: within one call of ChangeFunc the Notifier is called only after the
\* Exporter, with the same snapshot, and only if Export returned no error.
C8_NotifyOnlyAfterExportSucceeded ==
    \A t \in K8sSets :
        cf[t].ntf # None =>
            /\ cf[t].exp # "err"
            /\ cfg.Exporter => (cf[t].exp = "ok" /\ cf[t].expArg = cf[t].ntfArg)

\* C9: a failure of Export or Notify never escapes ChangeFunc to the set's
\* handler task, which is never ended by it, and every call of ChangeFunc,
\* whatever failed before, hands the Exporter the snapshot taken in that call
\* (one State per set registered when it was taken, in registration order).
C9_SinkErrorsStayInChangeFunc ==
    \A t \in K8sSets :
        /\ ~cf[t].raised
        /\ hpc[t] # "dead"
        /\ (cfg.Exporter /\ cf[t].pc \in {"notify", "return"}) =>
               /\ cf[t].exp # None
               /\ cf[t].expArg = cf[t].snap
               /\ Len(cf[t].expArg) <= Len(csets)
               /\ \A i \in 1..Len(cf[t].expArg) :
                      cf[t].expArg[i].ID = SetDef[csets[i]].id

\* C9 witness: the previous call of ChangeFunc on this task had a failing
\* sink, and the present call has called the Exporter.
C9_ExportAfterFailure ==
    \E t \in K8sSets :
        cf[t].prevFailed /\ cf[t].pc = "notify" /\ cf[t].exp = "ok"

\* C10: State() reads a kubernetes set's endpoints under the set's mutex, so
\* no State() read is in progress while updateSet, holding that mutex, is
\* storing the field.
C10_NoReadDuringStore ==
    \A t \in Tasks :
        (cf[t].pc = "reading" /\ csets[cf[t].i] \in K8sSets) =>
            hpc[csets[cf[t].i]] # "storing"

\* C11: for a static and for a kubernetes set, IsMember(addr, 0) is true
\* exactly when some member has that address, and IsMember(addr, p) with
\* p > 0 exactly when some member has that address and that port, also when
\* the address is a member under several ports.
C11_IsMemberIsExistence ==
    memOut.called =>
        LET want == \E i \in 1..Len(memEps) :
                        /\ memEps[i].Address = memAddr
                        /\ memPort > 0 => memEps[i].Port = memPort
        IN  memOut.static = want /\ memOut.kubernetes = want

\* C12: a static set never changes: its fields stay the id and endpoints it
\* was constructed with and State() returns them, Update returns
\* (false, nil), no callback handed to RegisterChangeFunc is invoked, and
\* Watch returns only once its context is cancelled, with the context's error.
C12_StaticSetNeverChanges ==
    /\ ssSet = ssNew
    /\ ssRet.State \in {<<>>, <<[ID |-> ssNew.id, Endpoints |-> ssNew.Endpoints]>>}
    /\ ssRet.Update \in {<<>>, <<[changed |-> FALSE, err |-> None]>>}
    /\ ssFired = {}
    /\ ssRet.Watch # <<>> => (ssCtx = "done" /\ ssRet.Watch[1].err # None)

\* C12 witness: a callback was registered, State and Update were called and
\* a Watch that blocked has returned after the cancellation.
C12_AllMethodsCalled ==
    /\ ssRet.Registered # <<>>
    /\ ssRet.State # <<>>
    /\ ssRet.Update # <<>>
    /\ ssRet.Watch # <<>>
    /\ ssNew.Endpoints # <<>>

\* C14: after Close() on a kubernetes set its subscription is torn down: no
\* event delivered after Close() stores another membership or invokes a
\* callback.
C14_NoEventAfterClose ==
    \A s \in K8sSets :
        hafter[s] =>
            /\ ~(hpc[s] = "storing" /\ hlist[s] # endpoints[s])
            /\ ~(hpc[s] = "callbacks" /\ hidx[s] <= Len(hcbs[s]))
            /\ hpc[s] # "inChangeFunc"

\* C15: CurrentState() reads the set list only while it holds the read lock
\* of c.mu, and no AddSet appends in between: the list it ranges over is the
\* registered list from the first to the last read, and what it has collected
\* is one State per registered set, in registration order.
C15_SnapshotOfRegisteredSets ==
    \A t \in Tasks :
        cf[t].pc \in {"range", "reading"} =>
            /\ t \in cmu
            /\ cf[t].n = Len(csets)
            /\ Len(cf[t].snap) = cf[t].i - 1
            /\ \A j \in 1..Len(cf[t].snap) : cf[t].snap[j].ID = SetDef[csets[j]].id

\* C15 witness: a CurrentState() call is about to return a State for each of
\* two registered sets while another call is still in its loop.
C15_TwoSetsRead ==
    \E t, u \in Tasks :
        /\ t # u
        /\ cf[t].pc = "range" /\ cf[t].i = 3 /\ Len(cf[t].snap) = 2
        /\ cf[u].pc = "reading"

\* C16: the Controller holds its lock only inside the loop of CurrentState():
\* a task that is in, or about to enter, Export or Notify holds none, so
\* neither another CurrentState() nor another set's ChangeFunc waits for it.
C16_NoLockAcrossSinks ==
    \A t \in Tasks : t \in cmu <=> cf[t].pc \in {"range", "reading"}

\* C16 witness: one set's ChangeFunc is in Notify, another set's ChangeFunc
\* is in Export, and a CurrentState() of the reader is in its loop.
C16_TwoChangeFuncsInSinks ==
    /\ cfg.Exporter /\ cfg.Notifier
    /\ cf["K2"].pc = "notify" /\ cf["K2"].exp = "ok"
    /\ cf["K3"].pc = "export" /\ Len(cf["K3"].snap) = 2
    /\ cf[Reader].pc = "reading"

\* the request path is <setID>/<address>: one "/", an integer before it
C18_WellFormed ==
    \E k \in 1..Len(reqRest) :
        /\ reqRest[k] = Slash
        /\ \A j \in 1..Len(reqRest) : reqRest[j] = Slash => j = k
        /\ k > 1
        /\ \A j \in 1..(k - 1) : reqRest[j] \in Digits

\* the set named by the request is registered and has the address as a member
C18_MemberOfSet ==
    \E k \in 1..Len(reqRest), i \in 1..Len(reqState) :
        /\ reqRest[k] = Slash
        /\ reqState[i].ID = Decimal(SubSeq(reqRest, 1, k - 1))
        /\ \E j \in 1..Len(reqState[i].Endpoints) :
               <<reqState[i].Endpoints[j].Address>> = SubSeq(reqRest, k + 1, Len(reqRest))

\* C18: GET /check/<setID>/<address> answers 400 when the path is not two
\* segments with an integer setID, else 200 when a set with that ID is
\* registered and the address is one of its members, else 404.
C18_CheckStatus ==
    reqOut.done =>
        reqOut.check.status =
            IF ~C18_WellFormed THEN StatusBadRequest
            ELSE IF C18_MemberOfSet THEN StatusOK
            ELSE StatusNotFound

\* C18 witness: the three answers occur; here a member of the static set is
\* found although the kubernetes set comes first and has no such member.
C18_MemberFound ==
    /\ reqOut.done
    /\ reqOut.check.status = StatusOK
    /\ reqRest = <<"2", Slash, "10.0.0.1">>
    /\ Len(reqState) = 2
    /\ reqState[1].Endpoints = <<>>

\* C19: /dispatcher/<setID> and its alias /dispatchers/<setID> answer alike:
\* 200 with the encoded State of the set, 404 for an unknown set, 400 for a
\* malformed path or a setID that is no integer.
C19_AliasAnswersAlike ==
    reqOut.done =>
        /\ reqOut.alias = reqOut.list
        /\ reqOut.list.status \in {StatusOK, StatusNotFound, StatusBadRequest}

\* n times the operation op
C17_Times(n, op) == [i \in 1..n |-> op]

\* C17: when run() of a daemon with a kubernetes set has reached its
\* steady-state loop it has, in this order, registered every set, recomputed
\* every set once, exported once, notified once and then scheduled the one
\* delayed re-notify.
C17_StartupSequence ==
    (runPc = "loop" /\ runDefs.sets > 0) =>
        \E k \in 1..Len(runLog) :
            /\ runLog[k] = "AfterFunc"
            /\ SubSeq(runLog, 1, k - 1) =
                   C17_Times(runDefs.sets + runDefs.statics, "AddSet")
                   \o C17_Times(runDefs.sets + runDefs.statics, "Update")
                   \o <<"Export", "Notify">>

(***************************************************************************)
(* dispatcherSets.export of the Watch generation: the file is created      *)
(* empty and the export of each set of the map s.sets is written to it, in *)
(* the order the range over the map yields the keys.  expSets maps each    *)
(* ID to the members and port of its set.                                  *)
(***************************************************************************)
ExportIds == 1..MaxSets

ExportPorts == {"5060", "5061"}

\* the orders a range over a map with these keys can take
RangeOrders(keys) ==
    {o \in [1..Cardinality(keys) -> keys] : \A i, j \in DOMAIN o : o[i] = o[j] => i = j}

RECURSIVE exportWrites(_, _, _)
\* the text in the file after the first n sets of the order were written
exportWrites(m, order, n) ==
    IF n = 0 THEN <<>>
    ELSE exportWrites(m, order, n - 1)
           \o setsExport(order[n], m[order[n]].members, m[order[n]].port)

ExpInit ==
    /\ \E keys \in SUBSET ExportIds :
          expSets \in [keys -> [members : MemberLists, port : ExportPorts]]
    /\ expOut = NoExport
    /\ cfg = [Exporter |-> TRUE, Notifier |-> TRUE]
    /\ MainIdle
    /\ DiffIdle
    /\ MemIdle
    /\ StaticIdle
    /\ ReqIdle
    /\ RunIdle
    /\ LegIdle
    /\ MemoryIdle
    /\ InformerIdle
    /\ SinkIdle

expRest == <<ctlVars, setVars, taskVars, diffVars, memVars, ssVars, reqVars, runVars, legVars, memoryVars, informerVars, sinkVars>>

\* export: os.Create, then WriteString per set; the write of set number
\* written + 1 fails when written is less than the number of sets
dispatcherSetsExportFile(order, written) ==
    /\ order \in RangeOrders(DOMAIN expSets)
    /\ written \in 0..Len(order)
    /\ expOut' = [file |-> exportWrites(expSets, order, written),
                  err |-> IF written < Len(order)
                            THEN "failed to write to dispatcher file" ELSE "nil"]
    /\ UNCHANGED <<expSets, expRest>>

ExpNext ==
    \E order \in UNION {RangeOrders(keys) : keys \in SUBSET ExportIds}, written \in 0..MaxSets :
        dispatcherSetsExportFile(order, written)

SpecExport == ExpInit /\ [][ExpNext]_vars

(***************************************************************************)
(* The Endpoints slices of a kubernetes set as references to backing       *)
(* arrays: flattenEndpointSlice appends to its local out, updateSet stores *)
(* the slice in s.endpoints and passes it to the callbacks in a State, and *)
(* State() returns a State with the slice of s.endpoints.  held records    *)
(* what each State handed out showed when it was handed out.               *)
(***************************************************************************)
\* the elements of the slice with backing array ref
Deref(ref) == IF ref = 0 THEN <<>> ELSE arrays[ref]

MemoryInit ==
    /\ MemoryIdle
    /\ cfg = [Exporter |-> TRUE, Notifier |-> TRUE]
    /\ MainIdle
    /\ DiffIdle
    /\ MemIdle
    /\ StaticIdle
    /\ ReqIdle
    /\ RunIdle
    /\ LegIdle
    /\ ExpIdle
    /\ InformerIdle
    /\ SinkIdle

memoryRest == <<ctlVars, setVars, taskVars, diffVars, memVars, ssVars, reqVars, runVars, legVars, expVars, informerVars, sinkVars>>

\* updateSet, lines 349-360: an EndpointSlice of the set arrives, flattenEndpointSlice starts with out = nil
updateSetFlatten ==
    /\ fpc = "idle"
    /\ fpc' = "flatten"
    /\ outRef' = 0
    /\ UNCHANGED <<arrays, epRef, held, memoryRest>>

\* a stand-in for flattenAppend that builds the list in the array of s.endpoints
flattenAppendInPlace(addr, port) ==
    /\ fpc = "flatten"
    /\ IF outRef = 0 /\ epRef # 0
         THEN /\ arrays' = [arrays EXCEPT ![epRef] = <<[Address |-> addr, Port |-> port]>>]
              /\ outRef' = epRef
         ELSE IF outRef = 0
         THEN /\ Len(arrays) < MaxArrays
              /\ arrays' = Append(arrays, <<[Address |-> addr, Port |-> port]>>)
              /\ outRef' = Len(arrays) + 1
         ELSE /\ Len(arrays[outRef]) < MaxEndpoints
              /\ port = arrays[outRef][1].Port
              /\ arrays' = [arrays EXCEPT ![outRef] = Append(@, [Address |-> addr, Port |-> port])]
              /\ UNCHANGED outRef
    /\ UNCHANGED <<epRef, fpc, held, memoryRest>>

\* flattenEndpointSlice, lines 453-460: out = append(out, &Endpoint{...});
\* the first append allocates the array of out
flattenAppend(addr, port) ==
    /\ fpc = "flatten"
    /\ IF outRef = 0
         THEN /\ Len(arrays) < MaxArrays
              /\ arrays' = Append(arrays, <<[Address |-> addr, Port |-> port]>>)
              /\ outRef' = Len(arrays) + 1
         ELSE /\ Len(arrays[outRef]) < MaxEndpoints
              /\ port = arrays[outRef][1].Port
              /\ arrays' = [arrays EXCEPT ![outRef] = Append(@, [Address |-> addr, Port |-> port])]
              /\ UNCHANGED outRef
    /\ UNCHANGED <<epRef, fpc, held, memoryRest>>

\* updateSet, lines 365-381: unchanged returns; else s.endpoints = list and
\* the callbacks receive a State with that list
updateSetPublish ==
    /\ fpc = "flatten"
    /\ fpc' = "idle"
    /\ outRef' = 0
    /\ IF isChanged(Deref(epRef), Deref(outRef))
         THEN /\ epRef' = outRef
              /\ held' = held \cup {[ref |-> outRef, seen |-> Deref(outRef)]}
         ELSE UNCHANGED <<epRef, held>>
    /\ UNCHANGED <<arrays, memoryRest>>

\* State(), lines 398-403: a State with the slice of s.endpoints
kubernetesSetStateHeld ==
    /\ held' = held \cup {[ref |-> epRef, seen |-> Deref(epRef)]}
    /\ UNCHANGED <<arrays, epRef, outRef, fpc, memoryRest>>

MemoryNext ==
    \/ updateSetFlatten
    \/ \E addr \in Addresses, port \in PortNumbers : flattenAppend(addr, port)
    \/ updateSetPublish
    \/ kubernetesSetStateHeld

SpecMemory == MemoryInit /\ [][MemoryNext]_vars

(***************************************************************************)
(* The delivery of the informer's notifications to a kubernetes set.       *)
(* NewKubernetesSet registers one event handler with the shared informer;  *)
(* the informer keeps the notifications for a registered handler in order  *)
(* and calls the handler's AddFunc, UpdateFunc or DeleteFunc for one       *)
(* notification after the other, each call returned before the next.       *)
(* The executions of updateSet are slots, so that two of them at a time    *)
(* can be told from one.                                                   *)
(***************************************************************************)
\* the objects delivered: EndpointSlices of the set's namespace and name, and
\* an object of another type
DeliveredObjects ==
    {obj \in Objects : obj.kind = "EndpointSlice" =>
        /\ obj.Namespace = SetDef["K1"].namespace
        /\ obj.Name = SetDef["K1"].name
        /\ obj.Ports = <<>>}

NotificationKinds == {"add", "update", "delete"}

InformerInit ==
    /\ InformerIdle
    /\ cfg = [Exporter |-> TRUE, Notifier |-> TRUE]
    /\ MainIdle
    /\ DiffIdle
    /\ MemIdle
    /\ StaticIdle
    /\ ReqIdle
    /\ RunIdle
    /\ LegIdle
    /\ ExpIdle
    /\ MemoryIdle
    /\ SinkIdle

informerRest == <<ctlVars, setVars, taskVars, diffVars, memVars, ssVars, reqVars, runVars, legVars, expVars, memoryVars, sinkVars>>

\* the informer has a notification for the handler registered at lines 340-344
informerNotify(kind, obj) ==
    /\ Len(infPending) < MaxQueue
    /\ infPending' = Append(infPending, [kind |-> kind, obj |-> obj])
    /\ UNCHANGED <<infExecs, infEndpoints, infMu, infPort, infLast, infDelivered, informerRest>>

\* a stand-in for updateSetEnters without the comparison of namespace and name
updateSetEntersAnyName(obj) ==
    IF obj.kind # "EndpointSlice" THEN [at |-> "type", list |-> <<>>]
    ELSE LET r == flattenEndpointSlice(infPort, obj)
         IN  IF r.err THEN [at |-> "flatten", list |-> <<>>]
             ELSE [at |-> "entered", list |-> r.out]

\* updateSet, lines 349-363, for the object of a notification: where it
\* returns, or "entered" and the list with which it goes on to s.mu.Lock()
updateSetEnters(obj) ==
    IF obj.kind # "EndpointSlice" THEN [at |-> "type", list |-> <<>>]
    ELSE IF obj.Namespace # SetDef["K1"].namespace \/ obj.Name # SetDef["K1"].name
         THEN [at |-> "name", list |-> <<>>]
    ELSE LET r == flattenEndpointSlice(infPort, obj)
         IN  IF r.err THEN [at |-> "flatten", list |-> <<>>]
             ELSE [at |-> "entered", list |-> r.out]

\* the execution a handler call for a notification leaves in its slot
Execution(n) ==
    LET r == updateSetEnters(n.obj)
    IN  IF r.at = "entered" THEN [pc |-> "lock", kind |-> n.kind, list |-> r.list]
        ELSE NoExecution

\* a stand-in for handlerCall that runs every call of the handler in a task of its own
handlerCallInOwnTask(kind) ==
    /\ infPending # <<>>
    /\ Head(infPending).kind = kind
    /\ \E x \in Executions :
        /\ infExecs[x].pc = "none"
        /\ infExecs' = [infExecs EXCEPT ![x] = Execution(Head(infPending))]
    /\ infLast' = updateSetEnters(Head(infPending).obj).at
    /\ infPending' = Tail(infPending)
    /\ UNCHANGED <<infEndpoints, infMu, infPort, infDelivered, informerRest>>

\* the informer calls the function registered for the kind of the next
\* notification when the call for the one before has returned
handlerCall(kind) ==
    /\ infPending # <<>>
    /\ Head(infPending).kind = kind
    /\ \A x \in Executions : infExecs[x].pc = "none"
    /\ infExecs' = [infExecs EXCEPT !["x1"] = Execution(Head(infPending))]
    /\ infLast' = updateSetEnters(Head(infPending).obj).at
    /\ infPending' = Tail(infPending)
    /\ UNCHANGED <<infEndpoints, infMu, infPort, infDelivered, informerRest>>

\* lines 384-386
addFunc == handlerCall("add")

\* lines 388-390
updateFunc == handlerCall("update")

\* lines 392-394
deleteFunc == handlerCall("delete")

\* line 365: s.mu.Lock()
informerUpdateSetLock(x) ==
    /\ infExecs[x].pc = "lock"
    /\ infMu = None
    /\ infMu' = x
    /\ infExecs' = [infExecs EXCEPT ![x].pc = "check"]
    /\ UNCHANGED <<infPending, infEndpoints, infPort, infLast, infDelivered, informerRest>>

\* lines 366-372: compare, and either unlock and return or store and unlock
informerUpdateSetCommit(x) ==
    /\ infExecs[x].pc = "check"
    /\ infMu' = None
    /\ IF ~isChanged(infEndpoints, infExecs[x].list)
       THEN /\ infExecs' = [infExecs EXCEPT ![x] = NoExecution]
            /\ UNCHANGED infEndpoints
       ELSE /\ infEndpoints' = infExecs[x].list
            /\ infExecs' = [infExecs EXCEPT ![x].pc = "callbacks"]
    /\ UNCHANGED <<infPending, infPort, infLast, infDelivered, informerRest>>

\* lines 374-382: the callbacks have been called with the State made of
\* list, updateSet returns
informerUpdateSetReturn(x) ==
    /\ infExecs[x].pc = "callbacks"
    /\ infDelivered' = [any |-> TRUE, Endpoints |-> infExecs[x].list]
    /\ infExecs' = [infExecs EXCEPT ![x] = NoExecution]
    /\ UNCHANGED <<infPending, infEndpoints, infMu, infPort, infLast, informerRest>>

InformerNext ==
    \/ \E kind \in NotificationKinds, obj \in DeliveredObjects : informerNotify(kind, obj)
    \/ addFunc
    \/ updateFunc
    \/ deleteFunc
    \/ \E x \in Executions : informerUpdateSetLock(x)
    \/ \E x \in Executions : informerUpdateSetCommit(x)
    \/ \E x \in Executions : informerUpdateSetReturn(x)

SpecInformer == InformerInit /\ [][InformerNext]_vars

(***************************************************************************)
(* The Controller's methods Export, Notify and ChangeFunc with each        *)
(* combination of Exporter and Notifier, nil or not, called one after the  *)
(* other by one task.                                                      *)
(***************************************************************************)
SinkInit ==
    /\ SinkIdle
    /\ cfg \in [Exporter : BOOLEAN, Notifier : BOOLEAN]
    /\ MainIdle
    /\ DiffIdle
    /\ MemIdle
    /\ StaticIdle
    /\ ReqIdle
    /\ RunIdle
    /\ LegIdle
    /\ ExpIdle
    /\ MemoryIdle
    /\ InformerIdle

sinkRest == <<ctlVars, setVars, taskVars, diffVars, memVars, ssVars, reqVars, runVars, legVars, expVars, memoryVars, informerVars>>

\* a stand-in for ControllerExport that calls the Exporter without the nil check
ControllerExportCallsNil(err) ==
    /\ Len(skLog) < MaxCalls
    /\ skLast' = [op |-> "Export", ret |-> err, calls |-> <<"Exporter.Export">>]
    /\ skLog' = Append(skLog, "Exporter.Export")
    /\ UNCHANGED sinkRest

\* Controller.Export: nil without an Exporter, else what Exporter.Export returns
ControllerExport(err) ==
    /\ Len(skLog) < MaxCalls
    /\ IF ~cfg.Exporter
       THEN /\ skLast' = [op |-> "Export", ret |-> "nil", calls |-> <<>>]
            /\ UNCHANGED skLog
       ELSE /\ skLast' = [op |-> "Export", ret |-> err, calls |-> <<"Exporter.Export">>]
            /\ skLog' = Append(skLog, "Exporter.Export")
    /\ UNCHANGED sinkRest

\* Controller.Notify: nil without a Notifier, else what Notifier.Notify returns
ControllerNotify(err) ==
    /\ Len(skLog) < MaxCalls
    /\ IF ~cfg.Notifier
       THEN /\ skLast' = [op |-> "Notify", ret |-> "nil", calls |-> <<>>]
            /\ UNCHANGED skLog
       ELSE /\ skLast' = [op |-> "Notify", ret |-> err, calls |-> <<"Notifier.Notify">>]
            /\ skLog' = Append(skLog, "Notifier.Notify")
    /\ UNCHANGED sinkRest

\* Controller.ChangeFunc: the Exporter when there is one, then the Notifier
\* when there is one; their errors are logged and nothing is returned
ControllerChangeFunc ==
    /\ Len(skLog) + 1 < MaxCalls
    /\ LET calls == (IF cfg.Exporter THEN <<"Exporter.Export">> ELSE <<>>)
                     \o (IF cfg.Notifier THEN <<"Notifier.Notify">> ELSE <<>>)
       IN  /\ skLast' = [op |-> "ChangeFunc", ret |-> "none", calls |-> calls]
           /\ skLog' = skLog \o calls
    /\ UNCHANGED sinkRest

SinkNext ==
    \/ \E err \in {"nil", "err"} : ControllerExport(err)
    \/ \E err \in {"nil", "err"} : ControllerNotify(err)
    \/ ControllerChangeFunc

SpecSinks == SinkInit /\ [][SinkNext]_vars

(***************************************************************************)
(* The same handler with a set whose port is the number "5060" or the name *)
(* "sip", and with notifications for every kind of object: another type,   *)
(* another namespace, another name, and the set's EndpointSlice with each  *)
(* list of ports.  The informer has one notification pending at a time.    *)
(***************************************************************************)
FilterObjects ==
    {obj \in Objects : obj.kind = "EndpointSlice" =>
        \/ obj.Namespace = SetDef["K1"].namespace /\ obj.Name = SetDef["K1"].name
        \/ /\ obj.Namespace # SetDef["K1"].namespace \/ obj.Name # SetDef["K1"].name
           /\ obj.Ports = <<[Name |-> <<"sip">>, Port |-> <<5061>>]>>
           /\ obj.Endpoints # <<>>}

FilterInit ==
    /\ infPending = <<>>
    /\ infExecs = [x \in Executions |-> NoExecution]
    /\ infEndpoints = <<>>
    /\ infMu = None
    /\ infPort \in {"5060", "sip"}
    /\ infLast = "none"
    /\ infDelivered = NoDelivery
    /\ cfg = [Exporter |-> TRUE, Notifier |-> TRUE]
    /\ MainIdle
    /\ DiffIdle
    /\ MemIdle
    /\ StaticIdle
    /\ ReqIdle
    /\ RunIdle
    /\ LegIdle
    /\ ExpIdle
    /\ MemoryIdle
    /\ SinkIdle

\* the informer has a notification for the handler, the one before delivered
informerNotifyOne(kind, obj) ==
    /\ infPending = <<>>
    /\ infPending' = <<[kind |-> kind, obj |-> obj]>>
    /\ UNCHANGED <<infExecs, infEndpoints, infMu, infPort, infLast, infDelivered, informerRest>>

FilterNext ==
    \/ \E kind \in NotificationKinds, obj \in FilterObjects : informerNotifyOne(kind, obj)
    \/ addFunc
    \/ updateFunc
    \/ deleteFunc
    \/ \E x \in Executions : informerUpdateSetLock(x)
    \/ \E x \in Executions : informerUpdateSetCommit(x)
    \/ \E x \in Executions : informerUpdateSetReturn(x)

SpecFilter == FilterInit /\ [][FilterNext]_vars

(***************************************************************************)
(* C13: Close() on a dispatcher set is idempotent and never fails, and     *)
(* after Close() the set's State()/Export still returns the last committed *)
(* membership under the same ID: every call of Close leaves the set's      *)
(* context cancelled and its export as it was, and a call after the first  *)
(* changes nothing at all but the count of the calls.                      *)
(***************************************************************************)
C13_CloseIdempotent ==
    [][lcloses' = lcloses + 1 =>
         /\ lsetCtx' = "done"
         /\ setsExport(legSet.id, lmembers', legSet.port)
              = setsExport(legSet.id, lmembers, legSet.port)
         /\ UNCHANGED <<lpc, shortDeaths, lsignalled, lret, lctx, mwpc, mwval,
                        legWatcherVars, legRest>>
         /\ lcloses >= 1 => UNCHANGED <<lsetCtx, lmembers>>]_vars

\* Close() has been called twice on a set that has members
C13_ClosedTwiceWithMembers == lcloses = 2 /\ lmembers # <<>> /\ lsetCtx = "done"

(***************************************************************************)
(* C20: a discovery-source failure (the subscription cannot be opened, the *)
(* stream ends with an error, a membership fetch fails) is never fatal:    *)
(* maintain never returns an error whose cause is a failure of the         *)
(* Kubernetes API.                                                         *)
(***************************************************************************)
C20_DiscoveryFailureNotFatal ==
    (lpc = "died" /\ lret # Nil) => Cause(lret) \notin {Cause(e) : e \in ApiFailures}

(***************************************************************************)
(* C21: the exported text of a set is its header line and one line per     *)
(* member in member order, and the export of several sets is the sets'     *)
(* blocks one after the other, as in the scenario: set 1 and then set 2.   *)
(* A successful export writes the blocks in the order of the IDs.          *)
(***************************************************************************)
C21_IdOrder(keys) ==
    CHOOSE o \in RangeOrders(keys) : \A i, j \in DOMAIN o : i < j => o[i] < o[j]

C21_ExportIsBlocksInOrder ==
    expOut.err = "nil" =>
        expOut.file = exportWrites(expSets, C21_IdOrder(DOMAIN expSets),
                                   Cardinality(DOMAIN expSets))

(***************************************************************************)
(* C22: set IDs are unique: at no time do two sets registered with the     *)
(* Controller share an ID, so that a query by ID designates at most one    *)
(* set.                                                                    *)
(***************************************************************************)
C22_RegisteredIdsUnique ==
    \A i, j \in DOMAIN runSets : runSets[i] = runSets[j] => i = j

(***************************************************************************)
(* C23: every committed membership change of a set registered with the     *)
(* Controller is followed by one Exporter.Export call whose argument is    *)
(* the full snapshot: when updateSet has made its calls after a commit,    *)
(* Controller.ChangeFunc was called exactly once, and what ChangeFunc      *)
(* hands to the Exporter is one State per registered set, the State of the *)
(* committing set holding the membership just committed.                   *)
(***************************************************************************)
C23_SnapshotIsFull ==
    \A s \in K8sSets :
        (cf[s].pc = "notify" /\ cf[s].exp # None) =>
            /\ Len(cf[s].expArg) = cf[s].n
            /\ \A j \in 1..Len(cf[s].expArg) :
                  /\ cf[s].expArg[j].ID = SetDef[csets[j]].id
                  /\ csets[j] = s => cf[s].expArg[j].Endpoints = hlist[s]

C23_CommitIsExported ==
    /\ \A s \in K8sSets :
          (/\ s \in Range(csets)
           /\ cfg.Exporter
           /\ hpc[s] = "callbacks"
           /\ hidx[s] > Len(hcbs[s]))
          => Cardinality({i \in DOMAIN hcbs[s] : hcbs[s][i] = ControllerFunc}) = 1
    /\ C23_SnapshotIsFull

(***************************************************************************)
(* C24: a State returned by State() or passed to a change callback is      *)
(* never altered by later recomputes: the Endpoints of every State handed  *)
(* out are still what they were when it was handed out.                    *)
(***************************************************************************)
C24_PublishedNeverAltered ==
    \A h \in held : Deref(h.ref) = h.seen

\* C24 witness: a State handed out earlier is still held, with members,
\* after a later recompute has installed another list in the set
C24_OldStateStillHeld ==
    \E h \in held :
        /\ h.ref # 0
        /\ epRef # 0
        /\ h.ref # epRef
        /\ [ref |-> epRef, seen |-> Deref(epRef)] \in held

(***************************************************************************)
(* C25: kubernetesSet.Watch returns with a nil error only after an Update  *)
(* that reported a change; an Update that finds no change makes it go      *)
(* round its loop; and maintain exports (and then notifies) once for each  *)
(* nil it receives, so once per reported change and never for a recompute  *)
(* without change.                                                         *)
(***************************************************************************)
C25_NilOnlyAfterChange ==
    [][/\ (wpc' = "send" /\ wval' = Nil /\ wpc # "send")
            => (wpc = "update" /\ differ(lmembers, lmembers'))
       /\ (wpc = "update" /\ wpc' = "watch") => ~differ(lmembers, lmembers')
       /\ (lpc' = "mexport" /\ lpc # "mexport")
            => (lpc = "recv" /\ Head(mchanges) = Nil /\ mchanges' = Tail(mchanges))
       /\ (lpc' = "mnotify" /\ lpc # "mnotify") => lpc = "mexport"]_vars

\* C25 witness: maintain has exported and is notifying after a Watch that
\* returned nil for a change, and Watch is waiting again
C25_ExportedAfterChange ==
    /\ lpc = "mnotify"
    /\ lmembers # <<>>
    /\ wpc = "select"
    /\ mchanges = <<>>

C27_BlockedForGood ==
    /\ lctx = "done"
    /\ wpc \in {"watch", "send"}
    /\ mwpc \in {"sendW", "sendM"}

C27_NoTaskBlockedAfterCancel == ~C27_BlockedForGood

\* the subscription task that is blocked for good stays where it is until
\* the run ends
C27_BlockedStays ==
    [][C27_BlockedForGood => (C27_BlockedForGood' \/ mwpc' = "none")]_vars

C30_SinkFailureOnlyLogged ==
    lpc = "died" =>
        lret \notin {Wrap(<<"write failed">>, "failed to export dispatcher set"),
                     Wrap(<<"rpc failed">>, "failed to notify kamailio of update")}

\* the fields of the set that a recompute can change, and its executions
SetState == <<infEndpoints, infDelivered, infExecs, infMu>>

\* the step is the handler call for the notification at the head of the queue
HandlerCalled ==
    /\ infPending # <<>>
    /\ infPending' = Tail(infPending)

\* the object of that notification
Notified == Head(infPending).obj

\* obj is an EndpointSlice with the namespace and name of the set
OfTheSet(obj) ==
    /\ obj.kind = "EndpointSlice"
    /\ obj.Namespace = SetDef["K1"].namespace
    /\ obj.Name = SetDef["K1"].name

\* the port reference is a name, and no port of obj has that name and a number
Unresolved(refPort, obj) ==
    /\ refPort = "sip"
    /\ \A i \in 1..Len(obj.Ports) :
        obj.Ports[i].Name # <<refPort>> \/ obj.Ports[i].Port = <<>>

(***************************************************************************)
(* C31: a recompute whose port reference cannot be resolved against the    *)
(* named ports of the object is abandoned: the committed membership stays, *)
(* no callback is called, no execution is left behind, so that the handler *)
(* takes the next notification as before.                                  *)
(***************************************************************************)
C31_UnresolvedPortAbandons ==
    [][(HandlerCalled /\ OfTheSet(Notified) /\ Unresolved(infPort, Notified))
            => (SetState' = SetState /\ infLast' = "flatten")]_vars

\* C31 witness: the last recompute was abandoned in flattenEndpointSlice, the
\* set has kept the members of an earlier one, and has handed them to its callbacks
C31_AbandonedWithMembers ==
    /\ infPort = "sip"
    /\ infLast = "flatten"
    /\ infEndpoints # <<>>
    /\ infDelivered = [any |-> TRUE, Endpoints |-> infEndpoints]
    /\ \A x \in Executions : infExecs[x].pc = "none"

(***************************************************************************)
(* C32: a delete notification for the EndpointSlice of the set leads to a  *)
(* recompute after which the committed membership holds none of the        *)
(* endpoints of the deleted object: when the execution started by          *)
(* deleteFunc has committed and calls the callbacks, the committed         *)
(* membership has no endpoint of the object it was called with.            *)
(***************************************************************************)
C32_DeleteRemovesMembers ==
    \A x \in Executions :
        (infExecs[x].kind = "delete" /\ infExecs[x].pc = "callbacks")
            => Range(infEndpoints) \cap Range(infExecs[x].list) = {}

(***************************************************************************)
(* C33: once SIGINT or SIGTERM has cancelled the stop context, the daemon  *)
(* stops and starts no new run: from the signal on, main is never again    *)
(* inside run() with a stop context that is not cancelled.                 *)
(***************************************************************************)
C33_NoRunAfterSignal ==
    lsignalled => (lctx = "done" \/ lpc \in {"main", "died", "exit"})

\* a step of the call of ChangeFunc, and of CurrentState in it, on the task of set s
ChangeFuncStep(s) ==
    \/ CurrentStateRLock(s)
    \/ CurrentStateRead(s)
    \/ CurrentStateAppend(s)
    \/ CurrentStateRUnlock(s)
    \/ ChangeFuncExport(s)
    \/ ChangeFuncNotify(s)
    \/ ChangeFuncReturn(s)

(***************************************************************************)
(* C34: a change callback can call Controller.CurrentState(), and through  *)
(* it State() of the set that calls it, without deadlock: while updateSet  *)
(* is at its callbacks the task does not hold the mutex of the set, and a  *)
(* call of ChangeFunc on that task can always take its next step.          *)
(***************************************************************************)
C34_CallbackReadsOwnSet ==
    \A s \in K8sSets :
        /\ hpc[s] \in {"range", "callbacks", "inChangeFunc"} => mu[s] # s
        /\ hpc[s] = "inChangeFunc" => ENABLED ChangeFuncStep(s)

\* C34 witness: ChangeFunc, called by updateSet of a set, is in CurrentState
\* inside State() of that very set
C34_ReadingOwnSet ==
    \E s \in K8sSets :
        /\ hpc[s] = "inChangeFunc"
        /\ cf[s].pc = "reading"
        /\ csets[cf[s].i] = s

(***************************************************************************)
(* C35: every read and every write of the callback list of a kubernetes    *)
(* set is made with the mutex of the set held: RegisterChangeFunc cannot   *)
(* append while updateSet is about to read s.callbacks for its range loop. *)
(***************************************************************************)
C35_CallbacksReadUnderMutex ==
    \A s \in K8sSets :
        hpc[s] = "range" =>
            /\ mu[s] = s
            /\ \A f \in Callbacks : ~ENABLED RegisterChangeFunc(s, f)

SubscriptionFailure(err) ==
    /\ err # Nil
    /\ err[1] \in {"failed to watch namespace", "failure during watch"}

(***************************************************************************)
(* C37: a failure of the subscription reaches the consumer of Watch once:  *)
(* when Watch has returned such a failure, the subscription task is not    *)
(* past a second send of it.  The task reaches its sleep only through the  *)
(* send of maintainWatch, which follows the send of endpoints.Watch.       *)
(***************************************************************************)
C37_FailureDeliveredOnce ==
    ~(mwpc = "sleep" /\ wpc = "send" /\ SubscriptionFailure(wval))

(***************************************************************************)
(* C38: an event whose object is not an EndpointSlice, or is one of        *)
(* another namespace or name than the set's, leaves the committed          *)
(* membership as it is and calls no callback: the handler call for it      *)
(* changes nothing of the set and starts no execution.                     *)
(***************************************************************************)
C38_ForeignEventIgnored ==
    [][(HandlerCalled /\ ~OfTheSet(Notified))
            => (SetState' = SetState /\ infLast' \in {"type", "name"})]_vars

\* C38 witness: the last notification was for an EndpointSlice of another
\* namespace or name with an address in it, and the set holds the members
\* it had, last delivered to its callbacks
C38_ForeignSliceDropped ==
    /\ infLast = "name"
    /\ infEndpoints # <<>>
    /\ infDelivered = [any |-> TRUE, Endpoints |-> infEndpoints]
    /\ \A x \in Executions : infExecs[x].pc = "none"

(***************************************************************************)
(* C39: with a nil Exporter Export() returns nil and calls nothing, with a *)
(* nil Notifier Notify() does; ChangeFunc leaves out the sink that is nil  *)
(* and calls the one that is not.                                          *)
(***************************************************************************)
C39_NilSinkSkipped ==
    /\ (skLast.op = "Export" /\ ~cfg.Exporter)
            => (skLast.ret = "nil" /\ skLast.calls = <<>>)
    /\ (skLast.op = "Notify" /\ ~cfg.Notifier)
            => (skLast.ret = "nil" /\ skLast.calls = <<>>)
    /\ skLast.op = "ChangeFunc" =>
            /\ cfg.Exporter <=> "Exporter.Export" \in Range(skLast.calls)
            /\ cfg.Notifier <=> "Notifier.Notify" \in Range(skLast.calls)
    /\ ~cfg.Exporter => "Exporter.Export" \notin Range(skLog)
    /\ ~cfg.Notifier => "Notifier.Notify" \notin Range(skLog)

\* C39 witness: a Controller without Exporter and with a Notifier, whose
\* ChangeFunc has called the Notifier and nothing else
C39_OnlyNotifierCalled ==
    /\ ~cfg.Exporter
    /\ cfg.Notifier
    /\ skLast.op = "ChangeFunc"
    /\ skLog = <<"Notifier.Notify">>

\* the same of ChangeFunc as the handler tasks run it step by step: when it
\* returns, it has called exactly the sinks that are not nil
C39_ChangeFuncSkipsNil ==
    \A t \in K8sSets :
        cf[t].pc = "return" =>
            /\ cfg.Exporter <=> cf[t].exp # None
            /\ cfg.Notifier <=> cf[t].ntf # None

====
